---- MODULE Spec2Model ----
(***************************************************************************)
(* A model of the streaming request pipeline of english-translator:        *)
(* createLLMConfigs (the request configuration resolver), streamContent    *)
(* (the stream consumer, with listAvailableModels on the not-found path),  *)
(* the renderer goroutine of main and main's close/wait/report tail.       *)
(* Strings are sequences of one-character strings, so that the string      *)
(* functions of the code are computed and not assumed.                     *)
(***************************************************************************)
EXTENDS Integers, Sequences, FiniteSets, TLC

(***************************************************************************)
(* Bounds of the model.                                                    *)
(***************************************************************************)
\* the remote stream yields at most MaxResults arbitrary results ...
MaxResults == 2
\* ... or a burst of QueueCap + BurstExtra one-character results
BurstExtra == 2
\* the pages the model catalog has at most, beyond the first
MaxPages == 1
\* the characters a raw input text has at most, where every text is tried
MaxTextLen == 4
\* the texts a sender of any texts puts on outputChan at most
MaxFragments == 3

(***************************************************************************)
(* Program constants.                                                      *)
(***************************************************************************)
QueueCap == 100
charLengthPerStep == 5

(***************************************************************************)
(* Strings.                                                                *)
(***************************************************************************)
RECURSIVE Concat(_)
Concat(ss) == IF ss = <<>> THEN <<>> ELSE Head(ss) \o Concat(Tail(ss))

HasPrefix(s, p) == Len(s) >= Len(p) /\ SubSeq(s, 1, Len(p)) = p

Contains(s, sub) ==
    \E i \in 0..(Len(s) - Len(sub)) : SubSeq(s, i + 1, i + Len(sub)) = sub

Min(a, b) == IF a < b THEN a ELSE b

Upper ==
    <<"A", "B", "C", "D", "E", "F", "G", "H", "I", "J", "K", "L", "M",
      "N", "O", "P", "Q", "R", "S", "T", "U", "V", "W", "X", "Y", "Z">>
Lower ==
    <<"a", "b", "c", "d", "e", "f", "g", "h", "i", "j", "k", "l", "m",
      "n", "o", "p", "q", "r", "s", "t", "u", "v", "w", "x", "y", "z">>

LowerChar(c) ==
    IF \E i \in DOMAIN Upper : Upper[i] = c
    THEN Lower[CHOOSE i \in DOMAIN Upper : Upper[i] = c]
    ELSE c

ToLower(s) == [i \in DOMAIN s |-> LowerChar(s[i])]

Space == {" ", "\t", "\n", "\r"}

RECURSIVE TrimLeft(_)
TrimLeft(s) == IF s # <<>> /\ Head(s) \in Space THEN TrimLeft(Tail(s)) ELSE s

RECURSIVE TrimRight(_)
TrimRight(s) ==
    IF s # <<>> /\ s[Len(s)] \in Space THEN TrimRight(SubSeq(s, 1, Len(s) - 1)) ELSE s

TrimSpace(s) == TrimRight(TrimLeft(s))

TrimPrefix(s, p) == IF HasPrefix(s, p) THEN SubSeq(s, Len(p) + 1, Len(s)) ELSE s

\* the characters of the model that take three bytes in UTF-8 (kana), named
\* by their code points
Kana == {"U+3053", "U+3093", "U+306B", "U+3061", "U+306F"}
Utf8Len(c) == IF c \in Kana THEN 3 ELSE 1

\* len(s): the length of a Go string in bytes
RECURSIVE ByteLen(_)
ByteLen(s) == IF s = <<>> THEN 0 ELSE Utf8Len(Head(s)) + ByteLen(Tail(s))

\* an escape that leaves the ampersand as it is
EscapeChar_AmpersandKept(c) ==
    CASE c = "'" -> <<"&", "#", "3", "9", ";">>
      [] c = "<" -> <<"&", "l", "t", ";">>
      [] c = ">" -> <<"&", "g", "t", ";">>
      [] c = "\"" -> <<"&", "#", "3", "4", ";">>
      [] OTHER -> <<c>>

EscapeChar(c) ==
    CASE c = "&" -> <<"&", "a", "m", "p", ";">>
      [] c = "'" -> <<"&", "#", "3", "9", ";">>
      [] c = "<" -> <<"&", "l", "t", ";">>
      [] c = ">" -> <<"&", "g", "t", ";">>
      [] c = "\"" -> <<"&", "#", "3", "4", ";">>
      [] OTHER -> <<c>>

RECURSIVE EscapeString(_)
EscapeString(s) ==
    IF s = <<>> THEN <<>> ELSE EscapeChar(Head(s)) \o EscapeString(Tail(s))

\* the character references html.EscapeString produces, and &quot;
Entities ==
    { [name |-> <<"&", "a", "m", "p", ";">>, to |-> "&"],
      [name |-> <<"&", "l", "t", ";">>, to |-> "<"],
      [name |-> <<"&", "g", "t", ";">>, to |-> ">"],
      [name |-> <<"&", "#", "3", "4", ";">>, to |-> "\""],
      [name |-> <<"&", "#", "3", "9", ";">>, to |-> "'"],
      [name |-> <<"&", "q", "u", "o", "t", ";">>, to |-> "\""] }

RECURSIVE UnescapeFrom(_, _)
UnescapeFrom(s, i) ==
    IF i > Len(s) THEN <<>>
    ELSE LET ms == {e \in Entities : HasPrefix(SubSeq(s, i, Len(s)), e.name)}
         IN  IF ms # {}
             THEN LET e == CHOOSE x \in ms : TRUE
                  IN  <<e.to>> \o UnescapeFrom(s, i + Len(e.name))
             ELSE <<s[i]>> \o UnescapeFrom(s, i + 1)

UnescapeString(s) == UnescapeFrom(s, 1)

(***************************************************************************)
(* createLLMConfigs: the request configuration resolver.                   *)
(***************************************************************************)
taskDefinitions ==
    << [Name |-> <<"t", "r", "a", "n", "s", "l", "a", "t", "e">>, SystemInstruction |-> "translate-instruction",
        InputPrefix |-> <<"J", "A", "P", "A", "N", "E", "S", "E", ":", "\n", "\n">>, InputSuffix |-> <<"\n", "\n">>,
        MaxTokensMultiplier |-> 10, MaxTokensBase |-> 0],
       [Name |-> <<"t", "e", "c", "h", "-", "q", "a">>, SystemInstruction |-> "tech-qa-instruction",
        InputPrefix |-> <<"Q", "U", "E", "S", "T", "I", "O", "N", ":", "\n", "\n">>, InputSuffix |-> <<"\n", "\n">>,
        MaxTokensMultiplier |-> 0, MaxTokensBase |-> 512] >>

\* alias -> task name
taskAliases ==
    (<<"q", "a">> :> <<"t", "e", "c", "h", "-", "q", "a">>) @@
    (<<"q", "u", "e", "s", "t", "i", "o", "n">> :> <<"t", "e", "c", "h", "-", "q", "a">>)

\* TaskDefinition{}
ZeroTaskDefinition ==
    [Name |-> <<>>, SystemInstruction |-> "", InputPrefix |-> <<>>, InputSuffix |-> <<>>,
     MaxTokensMultiplier |-> 0, MaxTokensBase |-> 0]

\* a lookup without the alias step
getTaskDefinition_NoAlias(taskName) ==
    LET trimmed == ToLower(TrimSpace(taskName))
        normalized == IF trimmed = <<>> THEN <<"t", "r", "a", "n", "s", "l", "a", "t", "e">> ELSE trimmed
        found == {i \in DOMAIN taskDefinitions : taskDefinitions[i].Name = normalized}
    IN  IF found # {}
        THEN [task |-> taskDefinitions[CHOOSE i \in found : \A j \in found : i <= j],
              ok |-> TRUE]
        ELSE [task |-> ZeroTaskDefinition, ok |-> FALSE]

getTaskDefinition(taskName) ==
    LET trimmed == ToLower(TrimSpace(taskName))
        named == IF trimmed = <<>> THEN <<"t", "r", "a", "n", "s", "l", "a", "t", "e">> ELSE trimmed
        normalized == IF named \in DOMAIN taskAliases THEN taskAliases[named] ELSE named
        found == {i \in DOMAIN taskDefinitions : taskDefinitions[i].Name = normalized}
    IN  IF found # {}
        THEN [task |-> taskDefinitions[CHOOSE i \in found : \A j \in found : i <= j],
              ok |-> TRUE]
        ELSE [task |-> ZeroTaskDefinition, ok |-> FALSE]

\* the names getTaskDefinition is called with in the model: a name in some
\* letter case, with or without white space around it
TaskNames ==
    { lead \o base \o trail :
        lead \in {<<>>, <<" ">>, <<"\t", " ">>},
        base \in { <<>>,
                   <<"t", "r", "a", "n", "s", "l", "a", "t", "e">>,
                   <<"T", "r", "a", "n", "s", "l", "a", "t", "e">>,
                   <<"T", "R", "A", "N", "S", "L", "A", "T", "E">>,
                   <<"t", "e", "c", "h", "-", "q", "a">>,
                   <<"T", "e", "c", "h", "-", "Q", "A">>,
                   <<"q", "a">>,
                   <<"Q", "A">>,
                   <<"q", "u", "e", "s", "t", "i", "o", "n">>,
                   <<"Q", "u", "e", "s", "t", "i", "o", "n">>,
                   <<"b", "o", "g", "u", "s">>,
                   <<"t", "r", "a", "n", "s", "l", "a", "t", "o", "r">>,
                   <<"t", "e", "c", "h", " ", "q", "a">>,
                   <<"q", " ", "a">>,
                   <<"a", "l", "i", "a", "s">>,
                   <<"t", "e", "c", "h", "q", "a">> },
        trail \in {<<>>, <<" ">>, <<"\n">>} }

\* no call of getTaskDefinition has returned yet
NoTaskOutput == [returned |-> FALSE, task |-> ZeroTaskDefinition, ok |-> FALSE]

\* the values of genai.ThinkingLevel
ThinkingLevelMinimal == "MINIMAL"
ThinkingLevelLow == "LOW"
ThinkingLevelMedium == "MEDIUM"
ThinkingLevelHigh == "HIGH"

NoError == [isNil |-> TRUE, kind |-> "", arg |-> <<>>]
\* the error of parseThinkingLevel, whose message holds the level as given
InvalidLevelErr(level) == [isNil |-> FALSE, kind |-> "invalid think-level", arg |-> level]
\* the error of a gemini-3-pro model, whose message holds the model name
ProLevelErr(modelName) == [isNil |-> FALSE, kind |-> "low or high only", arg |-> modelName]

\* a parser that compares the level as given, neither trimmed nor lower-cased
parseThinkingLevel_AsGiven(level) ==
    CASE level = <<"m", "i", "n", "i", "m", "a", "l">> -> [level |-> ThinkingLevelMinimal, err |-> NoError]
      [] level = <<"l", "o", "w">> -> [level |-> ThinkingLevelLow, err |-> NoError]
      [] level = <<"m", "e", "d", "i", "u", "m">> -> [level |-> ThinkingLevelMedium, err |-> NoError]
      [] level = <<"h", "i", "g", "h">> -> [level |-> ThinkingLevelHigh, err |-> NoError]
      [] OTHER -> [level |-> "", err |-> InvalidLevelErr(level)]

parseThinkingLevel(level) ==
    LET normalized == ToLower(TrimSpace(level))
    IN  CASE normalized = <<"m", "i", "n", "i", "m", "a", "l">> -> [level |-> ThinkingLevelMinimal, err |-> NoError]
          [] normalized = <<"l", "o", "w">> -> [level |-> ThinkingLevelLow, err |-> NoError]
          [] normalized = <<"m", "e", "d", "i", "u", "m">> -> [level |-> ThinkingLevelMedium, err |-> NoError]
          [] normalized = <<"h", "i", "g", "h">> -> [level |-> ThinkingLevelHigh, err |-> NoError]
          [] OTHER -> [level |-> "", err |-> InvalidLevelErr(level)]

isGemini3ProModel(modelName) ==
    LET name == TrimPrefix(ToLower(TrimSpace(modelName)), <<"m", "o", "d", "e", "l", "s", "/">>)
    IN  HasPrefix(name, <<"g", "e", "m", "i", "n", "i", "-", "3", "-", "p", "r", "o">>)

\* a classification that keeps the namespace prefix
isGemini3Model_PrefixKept(modelName) ==
    LET name == ToLower(TrimSpace(modelName))
    IN  HasPrefix(name, <<"g", "e", "m", "i", "n", "i", "-", "3">>)

isGemini3Model(modelName) ==
    LET name == TrimPrefix(ToLower(TrimSpace(modelName)), <<"m", "o", "d", "e", "l", "s", "/">>)
    IN  HasPrefix(name, <<"g", "e", "m", "i", "n", "i", "-", "3">>)

\* a *int32: nil, or a pointer to a value
NilBudget == [isNil |-> TRUE, value |-> 0]
BudgetPtr(v) == [isNil |-> FALSE, value |-> v]

\* a budget left absent when thinking is disabled
BudgetFor_Absent(enableThinking) ==
    IF enableThinking THEN BudgetPtr(1024) ELSE NilBudget

\* the budget of a model that is not gemini-3
BudgetFor(enableThinking) ==
    IF enableThinking THEN BudgetPtr(1024) ELSE BudgetPtr(0)

\* the two defaults exchanged
DefaultLevel_Swapped(enableThinking) ==
    IF enableThinking THEN ThinkingLevelLow ELSE ThinkingLevelHigh

\* the level of a gemini-3 model when none is requested
DefaultLevel(enableThinking) ==
    IF enableThinking THEN ThinkingLevelHigh ELSE ThinkingLevelLow

\* the texts of the two errors; the fixed (Japanese) parts of a message stand
\* as one element each, written here in ASCII
CfgErrorMsg(e) ==
    IF e.kind = "invalid think-level"
    THEN <<"[invalid -think-level]: ">> \o e.arg
         \o <<" ([allowed]: minimal|low|medium|high)">>
    ELSE <<"[model] '">> \o e.arg \o <<"' [-think-level: low or high only]">>

\* a policy that sets the budget of an enabled thinking for every model
ThinkingPolicy_BudgetForAll(modelName, enableThinking, requestedThinkingLevel) ==
    LET budget == IF enableThinking THEN BudgetPtr(1024) ELSE NilBudget
    IN  IF isGemini3Model(modelName)
        THEN LET parsed == IF TrimSpace(requestedThinkingLevel) # <<>>
                           THEN parseThinkingLevel(requestedThinkingLevel)
                           ELSE [level |-> DefaultLevel(enableThinking), err |-> NoError]
             IN  IF ~parsed.err.isNil
                 THEN [err |-> parsed.err, thinkingBudget |-> NilBudget, thinkingLevel |-> ""]
                 ELSE IF /\ isGemini3ProModel(modelName)
                         /\ parsed.level # ThinkingLevelLow
                         /\ parsed.level # ThinkingLevelHigh
                      THEN [err |-> ProLevelErr(modelName), thinkingBudget |-> NilBudget,
                            thinkingLevel |-> ""]
                      ELSE [err |-> NoError, thinkingBudget |-> budget,
                            thinkingLevel |-> parsed.level]
        ELSE [err |-> NoError, thinkingBudget |-> BudgetFor(enableThinking),
              thinkingLevel |-> ""]

\* a policy without the restriction of gemini-3-pro models
ThinkingPolicy_ProUnchecked(modelName, enableThinking, requestedThinkingLevel) ==
    IF isGemini3Model(modelName)
    THEN LET parsed == IF TrimSpace(requestedThinkingLevel) # <<>>
                       THEN parseThinkingLevel(requestedThinkingLevel)
                       ELSE [level |-> DefaultLevel(enableThinking), err |-> NoError]
         IN  IF ~parsed.err.isNil
             THEN [err |-> parsed.err, thinkingBudget |-> NilBudget, thinkingLevel |-> ""]
             ELSE [err |-> NoError, thinkingBudget |-> NilBudget,
                   thinkingLevel |-> parsed.level]
    ELSE [err |-> NoError, thinkingBudget |-> BudgetFor(enableThinking),
          thinkingLevel |-> ""]

\* the thinking policy: lines 153-177 of createLLMConfigs
ThinkingPolicy(modelName, enableThinking, requestedThinkingLevel) ==
    IF isGemini3Model(modelName)
    THEN LET parsed == IF TrimSpace(requestedThinkingLevel) # <<>>
                       THEN parseThinkingLevel(requestedThinkingLevel)
                       ELSE [level |-> DefaultLevel(enableThinking), err |-> NoError]
         IN  IF ~parsed.err.isNil
             THEN [err |-> parsed.err, thinkingBudget |-> NilBudget, thinkingLevel |-> ""]
             ELSE IF /\ isGemini3ProModel(modelName)
                     /\ parsed.level # ThinkingLevelLow
                     /\ parsed.level # ThinkingLevelHigh
                  THEN [err |-> ProLevelErr(modelName), thinkingBudget |-> NilBudget,
                        thinkingLevel |-> ""]
                  ELSE [err |-> NoError, thinkingBudget |-> NilBudget,
                        thinkingLevel |-> parsed.level]
    ELSE [err |-> NoError, thinkingBudget |-> BudgetFor(enableThinking),
          thinkingLevel |-> ""]

\* LlmRequestConfig{} and the nil *genai.GenerateContentConfig
ZeroRequestConfig ==
    [SystemInstruction |-> "", Model |-> <<>>, MaxTokens |-> 0, InputText |-> <<>>,
     IncludeThoughts |-> FALSE, ThinkingBudget |-> NilBudget, ThinkingLevel |-> ""]
NilGenaiConfig ==
    [isNil |-> TRUE, MaxOutputTokens |-> 0, SystemInstruction |-> "",
     ThinkingConfig |-> [IncludeThoughts |-> FALSE, ThinkingBudget |-> NilBudget,
                         ThinkingLevel |-> ""]]

\* a ceiling computed from the escaped text
createLLMConfigs_EscapedLength(task, modelName, inputText, enableThinking, requestedThinkingLevel) ==
    LET policy == ThinkingPolicy(modelName, enableThinking, requestedThinkingLevel)
        \* int32 arithmetic, exact for the short texts of the model
        base == ByteLen(EscapeString(inputText)) * task.MaxTokensMultiplier + task.MaxTokensBase
        maxTokens == IF policy.thinkingBudget.isNil THEN base
                     ELSE base + policy.thinkingBudget.value
        llmRequestConfig ==
            [SystemInstruction |-> task.SystemInstruction,
             Model |-> modelName,
             MaxTokens |-> maxTokens,
             InputText |-> task.InputPrefix \o EscapeString(inputText) \o task.InputSuffix,
             IncludeThoughts |-> enableThinking,
             ThinkingBudget |-> policy.thinkingBudget,
             ThinkingLevel |-> policy.thinkingLevel]
        config ==
            [isNil |-> FALSE,
             MaxOutputTokens |-> llmRequestConfig.MaxTokens,
             SystemInstruction |-> llmRequestConfig.SystemInstruction,
             ThinkingConfig |->
                IF isGemini3Model(modelName)
                THEN [IncludeThoughts |-> llmRequestConfig.IncludeThoughts,
                      ThinkingBudget |-> NilBudget,
                      ThinkingLevel |-> llmRequestConfig.ThinkingLevel]
                ELSE [IncludeThoughts |-> llmRequestConfig.IncludeThoughts,
                      ThinkingBudget |-> llmRequestConfig.ThinkingBudget,
                      ThinkingLevel |-> ""]]
    IN  IF ~policy.err.isNil
        THEN [llmRequestConfig |-> ZeroRequestConfig, config |-> NilGenaiConfig,
              err |-> policy.err]
        ELSE [llmRequestConfig |-> llmRequestConfig, config |-> config, err |-> NoError]

createLLMConfigs(task, modelName, inputText, enableThinking, requestedThinkingLevel) ==
    LET policy == ThinkingPolicy(modelName, enableThinking, requestedThinkingLevel)
        \* int32 arithmetic, exact for the short texts of the model
        base == ByteLen(inputText) * task.MaxTokensMultiplier + task.MaxTokensBase
        maxTokens == IF policy.thinkingBudget.isNil THEN base
                     ELSE base + policy.thinkingBudget.value
        llmRequestConfig ==
            [SystemInstruction |-> task.SystemInstruction,
             Model |-> modelName,
             MaxTokens |-> maxTokens,
             InputText |-> task.InputPrefix \o EscapeString(inputText) \o task.InputSuffix,
             IncludeThoughts |-> enableThinking,
             ThinkingBudget |-> policy.thinkingBudget,
             ThinkingLevel |-> policy.thinkingLevel]
        config ==
            [isNil |-> FALSE,
             MaxOutputTokens |-> llmRequestConfig.MaxTokens,
             SystemInstruction |-> llmRequestConfig.SystemInstruction,
             ThinkingConfig |->
                IF isGemini3Model(modelName)
                THEN [IncludeThoughts |-> llmRequestConfig.IncludeThoughts,
                      ThinkingBudget |-> NilBudget,
                      ThinkingLevel |-> llmRequestConfig.ThinkingLevel]
                ELSE [IncludeThoughts |-> llmRequestConfig.IncludeThoughts,
                      ThinkingBudget |-> llmRequestConfig.ThinkingBudget,
                      ThinkingLevel |-> ""]]
    IN  IF ~policy.err.isNil
        THEN [llmRequestConfig |-> ZeroRequestConfig, config |-> NilGenaiConfig,
              err |-> policy.err]
        ELSE [llmRequestConfig |-> llmRequestConfig, config |-> config, err |-> NoError]

\* the arguments createLLMConfigs is called with in the model
CfgModelNames ==
    { <<"g", "e", "m", "i", "n", "i", "-", "2", ".", "5", "-", "f", "l", "a", "s", "h">>,
      <<"g", "e", "m", "i", "n", "i", "-", "3", "-", "f", "l", "a", "s", "h", "-", "p", "r", "e", "v", "i", "e", "w">>,
      <<"g", "e", "m", "i", "n", "i", "-", "3", "-", "p", "r", "o", "-", "p", "r", "e", "v", "i", "e", "w">>,
      <<" ", "M", "o", "d", "e", "l", "s", "/", "G", "e", "m", "i", "n", "i", "-", "3", "-", "P", "r", "o", " ">>,
      <<"m", "o", "d", "e", "l", "s", "/", "g", "e", "m", "i", "n", "i", "-", "3">>,
      <<"x", "g", "e", "m", "i", "n", "i", "-", "3">>,
      <<"m", "o", "d", "e", "l", "s", "/", "m", "o", "d", "e", "l", "s", "/", "g", "e", "m", "i", "n", "i", "-", "3", "-", "p", "r", "o">> }

CfgInputTexts ==
    { <<>>,
      <<"a", "b">>,
      <<"a", "<", "b", "&", "\"">>,
      <<"U+3053", "U+3093", "U+306B", "U+3061", "U+306F">> }

CfgLevels ==
    { <<>>,
      <<" ">>,
      <<"l", "o", "w">>,
      <<"H", "I", "G", "H">>,
      <<" ", "M", "e", "d", "i", "u", "m", " ">>,
      <<"m", "i", "n", "i", "m", "a", "l">>,
      <<"m", "a", "x">> }

CfgInputs ==
    [task : {taskDefinitions[i] : i \in DOMAIN taskDefinitions},
     modelName : CfgModelNames,
     inputText : CfgInputTexts,
     enableThinking : BOOLEAN,
     requestedThinkingLevel : CfgLevels]

NoCfgInput ==
    [task |-> taskDefinitions[1], modelName |-> <<>>, inputText |-> <<>>,
     enableThinking |-> FALSE, requestedThinkingLevel |-> <<>>]

\* no call of createLLMConfigs has returned yet
NoCfgOutput ==
    [returned |-> FALSE, llmRequestConfig |-> ZeroRequestConfig,
     config |-> NilGenaiConfig, err |-> NoError]

(***************************************************************************)
(* The raw input texts that are escaped and unescaped in the model.        *)
(***************************************************************************)
\* the characters html.EscapeString replaces, and those of a character
\* reference
RawChars == {"&", "<", ">", "\"", "'", "l", "t", ";"}

\* the raw input texts: every text over RawChars of at most MaxTextLen characters
RawTexts == UNION { [1..n -> RawChars] : n \in 0..MaxTextLen }

\* nothing is escaped yet: the text is the raw input text
NoEscOutput(raw) == [step |-> 0, text |-> raw, InputText |-> <<>>]

\* the model name of the calls that escape a text
EscModel == <<"g", "e", "m", "i", "n", "i", "-", "2", ".", "5", "-", "f", "l", "a", "s", "h">>

\* the model names the classification is called with in the model: white
\* space, a namespace prefix, a name in some letter case, white space
ClsNamespaces ==
    { <<>>,
      <<"m", "o", "d", "e", "l", "s", "/">>,
      <<"M", "o", "d", "e", "l", "s", "/">>,
      <<"m", "o", "d", "e", "l", "s", "/", "m", "o", "d", "e", "l", "s", "/">>,
      <<"m", "o", "d", "e", "l", "s", "/", " ">> }

ClsBases ==
    { <<"g", "e", "m", "i", "n", "i", "-", "3">>,
      <<"G", "e", "m", "i", "n", "i", "-", "3", "-", "P", "r", "o">>,
      <<"g", "e", "m", "i", "n", "i", "-", "3", "-", "p", "r", "o", "-", "p", "r", "e", "v", "i", "e", "w">>,
      <<"G", "E", "M", "I", "N", "I", "-", "3", "-", "P", "R", "O">>,
      <<"g", "e", "m", "i", "n", "i", "-", "3", "-", "f", "l", "a", "s", "h", "-", "p", "r", "e", "v", "i", "e", "w">>,
      <<"g", "e", "m", "i", "n", "i", "-", "3", "0">>,
      <<"g", "e", "m", "i", "n", "i", "-", "3", "-", "p", "r">>,
      <<"g", "e", "m", "i", "n", "i", "-", "3", ".", "1", "-", "p", "r", "o">>,
      <<"g", "e", "m", "i", "n", "i", "-", "2", ".", "5", "-", "p", "r", "o">>,
      <<"g", "e", "m", "i", "n", "i", "-", "2", ".", "5", "-", "f", "l", "a", "s", "h">>,
      <<"x", "g", "e", "m", "i", "n", "i", "-", "3", "-", "p", "r", "o">>,
      <<"g", "e", "m", "i", "n", "i">>,
      <<>>,
      <<"p", "r", "o">> }

ClsInputs ==
    [lead : {<<>>, <<" ">>, <<"\t", " ">>},
     ns : ClsNamespaces,
     base : ClsBases,
     trail : {<<>>, <<" ">>, <<"\n">>}]

\* the model name of an input
ClsName(in) == in.lead \o in.ns \o in.base \o in.trail

\* no model name is classified yet
NoClsOutput == [returned |-> FALSE, isGemini3 |-> FALSE, isGemini3Pro |-> FALSE]

(***************************************************************************)
(* The remote stream: results (genai.GenerateContentResponse) and errors.  *)
(* A nil pointer is a record whose isNil is TRUE.                          *)
(***************************************************************************)
Part(text, thought) == [isNil |-> FALSE, Text |-> text, Thought |-> thought]
NilPart == [isNil |-> TRUE, Text |-> <<>>, Thought |-> FALSE]

Cand(parts) ==
    [isNil |-> FALSE, contentNil |-> FALSE, partsNil |-> FALSE, Parts |-> parts]
NilCand ==
    [isNil |-> TRUE, contentNil |-> TRUE, partsNil |-> TRUE, Parts |-> <<>>]
NoContentCand ==
    [isNil |-> FALSE, contentNil |-> TRUE, partsNil |-> TRUE, Parts |-> <<>>]

Usage(total, prompt, cands, thoughts) ==
    [isNil |-> FALSE, TotalTokenCount |-> total, PromptTokenCount |-> prompt,
     CandidatesTokenCount |-> cands, ThoughtsTokenCount |-> thoughts]
NoUsage ==
    [isNil |-> TRUE, TotalTokenCount |-> 0, PromptTokenCount |-> 0,
     CandidatesTokenCount |-> 0, ThoughtsTokenCount |-> 0]

Res(cands, version, usage) ==
    [isNil |-> FALSE, candsNil |-> FALSE, Candidates |-> cands,
     ModelVersion |-> version, UsageMetadata |-> usage]
NoCandsRes(version, usage) ==
    [isNil |-> FALSE, candsNil |-> TRUE, Candidates |-> <<>>,
     ModelVersion |-> version, UsageMetadata |-> usage]
NilRes ==
    [isNil |-> TRUE, candsNil |-> TRUE, Candidates |-> <<>>,
     ModelVersion |-> "", UsageMetadata |-> NoUsage]

\* one element of the iterator: (result, err)
OkEvent(res) == [errNil |-> TRUE, errText |-> <<>>, result |-> res]
ErrEvent(text) == [errNil |-> FALSE, errText |-> text, result |-> NilRes]

\* the one-character result a burst is made of
Filler == Res(<<Cand(<<Part(<<"a">>, FALSE)>>)>>, "", NoUsage)

Results ==
    { Filler,
      Res(<<Cand(<<Part(<<"t", "\n">>, TRUE),
                   Part(<<"x", "&", "l", "t", ";", "y">>, FALSE)>>)>>,
          "v1", Usage(6, 1, 2, 3)),
      Res(<<Cand(<<Part(<<"a", "b", "c", "d", "e", "f", "g">>, FALSE)>>),
            NilCand, NoContentCand,
            Cand(<<NilPart, Part(<<>>, FALSE), Part(<<"o", "k", "a", "y", "\n">>, FALSE)>>)>>,
          "v2", NoUsage),
      NoCandsRes("", Usage(9, 4, 5, 0)),
      NilRes }

\* texts of the errors the stream may deliver
ErrTexts ==
    { <<"x", "4", "0", "4">>,
      <<"n", "o", "t", " ", "f", "o", "u", "n", "d">>,
      <<"N", "o", "t", " ", "F", "o", "u", "n", "d">> }

(***************************************************************************)
(* The model catalog that Models.List pages through.                       *)
(***************************************************************************)
ModelInfo(name, desc, actions) ==
    [Name |-> name, Description |-> desc, SupportedActions |-> actions]

\* page i of the catalog: odd pages hold a model that supports
\* generateContent between two that do not, even pages two that do
CatalogPage(i) ==
    IF i % 2 = 1
    THEN <<ModelInfo(<<"models/embedding", i>>, "embed", <<"embedContent">>),
           ModelInfo(<<"models/gemini-flash", i>>, "fast",
                     <<"countTokens", "generateContent">>),
           ModelInfo(<<"models/aqa", i>>, "aqa", <<>>)>>
    ELSE <<ModelInfo(<<"models/gemini-pro", i>>, "pro", <<"generateContent">>),
           ModelInfo(<<"models/gemini-lite", i>>, "lite",
                     <<"generateContent", "batchGenerateContent">>)>>

\* the k-th page of a catalog: empty, or one of two pages kept for it
PageChoice(k, c) ==
    CASE c = 0 -> <<>>
      [] c = 1 -> CatalogPage(2 * k - 1)
      [] c = 2 -> CatalogPage(2 * k)

\* the catalogs of at most MaxPages + 1 pages; Models.List always returns a
\* first page
Catalogs ==
    UNION { { [k \in 1..n |-> PageChoice(k, f[k])] : f \in [1..n -> 0..2] } :
            n \in 1..(MaxPages + 1) }

\* The inputs of one invocation: color.NoColor, llmReqConfig.Model and the
\* remote catalog. The code never uses two of them together (one decides the
\* bytes of a thought text, one the text of the returned error, one the
\* lines of the model listing), so each value of one is paired with one
\* value of the others.
Invocations ==
    { [noColor |-> FALSE,
       Model |-> <<"n", "o", "n", "e", "x", "i", "s", "t", "e", "n", "t", "-", "m", "o", "d", "e", "l">>,
       catalog |-> [k \in 1..(MaxPages + 1) |-> CatalogPage(k)]],
      [noColor |-> TRUE,
       Model |-> <<"g", "e", "m", "i", "n", "i", "-", "2", ".", "5", "-", "f", "l", "a", "s", "h">>,
       catalog |-> <<CatalogPage(1)>>] }

VARIABLES
    mainPc,        \* where the main goroutine is (main and streamContent)
    exitCode,      \* the process's exit status, -1 while it runs
    noColor,       \* color.NoColor, fixed by the terminal
    Model,         \* llmReqConfig.Model
    catalog,       \* the pages of the remote model catalog
    outputChan,    \* the buffered channel's content
    closed,        \* whether outputChan is closed
    closeCount,    \* how many times close(outputChan) ran
    doneCount,     \* how many values passed through done
    delivered,     \* the events the stream has yielded so far
    streamOpens,   \* how many times GenerateContentStream was called
    pending,       \* texts of the current result still to be sent
    sent,          \* the texts sent on outputChan so far
    metadata,      \* streamContent's metadata
    err,           \* the error streamContent returns
    stderr,        \* the lines written to the diagnostic stream
    iter,          \* listAvailableModels' current page
    pagesFetched,  \* how many times iter.Next returned a page
    listCalls,     \* how many times listAvailableModels was entered
    listReturned,  \* how many times listAvailableModels returned
    rPc,           \* where the renderer goroutine is
    text,          \* the renderer's current text
    start,         \* the renderer's slice offset
    lastTextEndedWithNewline,
    stdout,        \* the bytes written to standard output
    printCalls,    \* how many times the current text made the renderer print
    sleepCalls,    \* how many times the current text made the renderer sleep
    cfgIn,         \* the arguments of a call of createLLMConfigs
    cfgOut,        \* what the call returned
    taskIn,        \* the name getTaskDefinition is called with
    taskOut,       \* what the call returned
    escIn,         \* a task and a raw input text
    escOut,        \* the text after each html.EscapeString, html.UnescapeString
    clsIn,         \* the parts of a model name
    clsOut         \* what isGemini3Model and isGemini3ProModel returned for it

vars ==
    <<mainPc, exitCode, noColor, Model, catalog, outputChan, closed, closeCount, doneCount,
      delivered, streamOpens, pending, sent, metadata, err, stderr, iter,
      pagesFetched, listCalls, listReturned, rPc, text, start,
      lastTextEndedWithNewline, stdout, printCalls, sleepCalls, cfgIn, cfgOut,
      taskIn, taskOut,
      escIn, escOut, clsIn, clsOut>>

\* the variables of the calls of the functions that are modelled on their own
fnVars == <<taskIn, taskOut, escIn, escOut, clsIn, clsOut>>

cfgVars == <<cfgIn, cfgOut, fnVars>>

\* no such function is called
TaskIdle ==
    /\ taskIn = <<>>
    /\ taskOut = NoTaskOutput

EscIdle ==
    /\ escIn = [task |-> taskDefinitions[1], raw |-> <<>>]
    /\ escOut = NoEscOutput(<<>>)

ClsIdle ==
    /\ clsIn = [lead |-> <<>>, ns |-> <<>>, base |-> <<>>, trail |-> <<>>]
    /\ clsOut = NoClsOutput

FnIdle == TaskIdle /\ EscIdle /\ ClsIdle

mainVars ==
    <<mainPc, exitCode, closed, closeCount, delivered, streamOpens, pending, sent,
      metadata, err, stderr, iter, pagesFetched, listCalls, listReturned>>

rendererVars ==
    <<rPc, text, start, lastTextEndedWithNewline, stdout, printCalls, sleepCalls>>

ZeroMetadata ==
    [APICallTime |-> 0, ModelVersion |-> "", PromptTokenCount |-> 0,
     CandidatesTokenCount |-> 0, ThoughtsTokenCount |-> 0, TotalTokenCount |-> 0]

NilErr == [isNil |-> TRUE, kind |-> "", model |-> <<>>, cause |-> <<>>]

\* the pipeline as main leaves it before it calls streamContent: the
\* channels are made and the renderer goroutine is started
PipelineInit(inv) ==
    /\ mainPc = "call"
    /\ exitCode = -1
    /\ noColor = inv.noColor
    /\ Model = inv.Model
    /\ catalog = inv.catalog
    /\ outputChan = <<>>
    /\ closed = FALSE
    /\ closeCount = 0
    /\ doneCount = 0
    /\ delivered = <<>>
    /\ streamOpens = 0
    /\ pending = <<>>
    /\ sent = <<>>
    /\ metadata = ZeroMetadata
    /\ err = NilErr
    /\ stderr = <<>>
    /\ iter = <<>>
    /\ pagesFetched = 0
    /\ listCalls = 0
    /\ listReturned = 0
    /\ rPc = "recv"
    /\ text = <<>>
    /\ start = 0
    /\ lastTextEndedWithNewline = FALSE
    /\ stdout = <<>>
    /\ printCalls = 0
    /\ sleepCalls = 0

Init ==
    /\ \E inv \in Invocations : PipelineInit(inv)
    /\ cfgIn = NoCfgInput
    /\ cfgOut = NoCfgOutput
    /\ FnIdle

(***************************************************************************)
(* streamContent: the texts one result puts on outputChan.                 *)
(***************************************************************************)
\* color.BlueString wraps the text in the escape sequences ESC[34m, ESC[0m
\* unless color.NoColor is set
BlueString(t) ==
    IF noColor THEN t
    ELSE <<"\\e", "[", "3", "4", "m">> \o t \o <<"\\e", "[", "0", "m">>

\* a loop over the parts that forwards the empty texts too
PartsOut_EmptyForwarded(parts) ==
    LET kept == SelectSeq(parts, LAMBDA part : ~part.isNil)
    IN  [i \in DOMAIN kept |->
            IF kept[i].Thought
            THEN BlueString(UnescapeString(kept[i].Text))
            ELSE UnescapeString(kept[i].Text)]

RECURSIVE PartsOut(_)
PartsOut(parts) ==
    IF parts = <<>> THEN <<>>
    ELSE LET part == Head(parts)
         IN  (IF ~part.isNil /\ part.Text # <<>>
              THEN <<IF part.Thought
                     THEN BlueString(UnescapeString(part.Text))
                     ELSE UnescapeString(part.Text)>>
              ELSE <<>>) \o PartsOut(Tail(parts))

RECURSIVE CandsOut(_)
CandsOut(cands) ==
    IF cands = <<>> THEN <<>>
    ELSE LET cand == Head(cands)
         IN  (IF ~cand.isNil /\ ~cand.contentNil /\ ~cand.partsNil
              THEN PartsOut(cand.Parts)
              ELSE <<>>) \o CandsOut(Tail(cands))

ResultOut(result) ==
    IF ~result.isNil /\ ~result.candsNil THEN CandsOut(result.Candidates) ELSE <<>>

\* an update that adds the counters of a snapshot to those seen before
UpdateMetadata_Summing(md, result) ==
    IF result.isNil THEN md
    ELSE LET m1 == [md EXCEPT !.ModelVersion = result.ModelVersion]
             u == result.UsageMetadata
         IN  IF u.isNil THEN m1
             ELSE [m1 EXCEPT !.TotalTokenCount = @ + u.TotalTokenCount,
                             !.PromptTokenCount = @ + u.PromptTokenCount,
                             !.CandidatesTokenCount = @ + u.CandidatesTokenCount,
                             !.ThoughtsTokenCount = @ + u.ThoughtsTokenCount]

\* the metadata after the result's update
UpdateMetadata(md, result) ==
    IF result.isNil THEN md
    ELSE LET m1 == [md EXCEPT !.ModelVersion = result.ModelVersion]
             u == result.UsageMetadata
         IN  IF u.isNil THEN m1
             ELSE [m1 EXCEPT !.TotalTokenCount = u.TotalTokenCount,
                             !.PromptTokenCount = u.PromptTokenCount,
                             !.CandidatesTokenCount = u.CandidatesTokenCount,
                             !.ThoughtsTokenCount = u.ThoughtsTokenCount]

\* a classification that forgets the "not found" wording
IsNotFound_Only404(errText) == Contains(errText, <<"4", "0", "4">>)

\* strings.Contains(err.Error(), "404") || strings.Contains(err.Error(), "not found")
IsNotFound(errText) ==
    \/ Contains(errText, <<"4", "0", "4">>)
    \/ Contains(errText, <<"n", "o", "t", " ", "f", "o", "u", "n", "d">>)

\* the two errors streamContent builds with fmt.Errorf("...: %w", err)
UnavailableErr(model, cause) ==
    [isNil |-> FALSE, kind |-> "unavailable", model |-> model, cause |-> cause]
CallFailedErr(cause) ==
    [isNil |-> FALSE, kind |-> "failed", model |-> <<>>, cause |-> cause]

\* the fixed (Japanese) parts of the two messages stand as one element each,
\* written here in ASCII
NotFoundPhrase == "[not found or generateContent unsupported]"
ErrorMsg(e) ==
    IF e.kind = "unavailable"
    THEN <<"[the given model] '">> \o e.model \o <<"' ", NotFoundPhrase, ": ">> \o e.cause
    ELSE <<"[error during the API call]", ": ">> \o e.cause

\* The streams of the model: at most MaxResults arbitrary results and then
\* the end or an error, or a burst of QueueCap + BurstExtra Filler results
\* and then the end.
AllFiller(evs) == \A i \in DOMAIN evs : evs[i] = OkEvent(Filler)
BurstLen == QueueCap + BurstExtra
NextResults ==
    IF Len(delivered) < MaxResults THEN Results
    ELSE IF AllFiller(delivered) /\ Len(delivered) < BurstLen THEN {Filler}
         ELSE {}
MayStop == Len(delivered) <= MaxResults \/ Len(delivered) = BurstLen
MayFail == Len(delivered) <= MaxResults

(***************************************************************************)
(* The main goroutine: main calls streamContent, which may call            *)
(* listAvailableModels; then main closes outputChan and waits for done.    *)
(***************************************************************************)
\* streamContent is entered: client.Models.GenerateContentStream
Main_CallStream ==
    /\ mainPc = "call"
    /\ mainPc' = "range"
    /\ streamOpens' = streamOpens + 1
    /\ UNCHANGED <<exitCode, noColor, Model, catalog, outputChan, closed, closeCount,
                   doneCount, delivered, pending, sent, metadata, err, stderr,
                   iter, pagesFetched, listCalls, listReturned>>
    /\ UNCHANGED rendererVars
    /\ UNCHANGED cfgVars

\* the range loop takes a result from the stream
SC_RecvResult ==
    /\ mainPc = "range"
    /\ \E result \in NextResults :
          /\ delivered' = Append(delivered, OkEvent(result))
          /\ pending' = ResultOut(result)
    /\ mainPc' = "send"
    /\ UNCHANGED <<exitCode, noColor, Model, catalog, outputChan, closed, closeCount,
                   doneCount, streamOpens, sent, metadata, err, stderr,
                   iter, pagesFetched, listCalls, listReturned>>
    /\ UNCHANGED rendererVars
    /\ UNCHANGED cfgVars

\* a send that does not wait for room in the buffer
SC_Send_Unbounded ==
    /\ mainPc = "send"
    /\ pending # <<>>
    /\ ~closed
    /\ outputChan' = Append(outputChan, Head(pending))
    /\ sent' = Append(sent, Head(pending))
    /\ pending' = Tail(pending)
    /\ UNCHANGED <<mainPc, exitCode, noColor, Model, catalog, closed, closeCount,
                   doneCount, delivered, streamOpens, metadata, err, stderr,
                   iter, pagesFetched, listCalls, listReturned>>
    /\ UNCHANGED rendererVars
    /\ UNCHANGED cfgVars

\* outputChan <- text, which blocks while the buffer is full
SC_Send ==
    /\ mainPc = "send"
    /\ pending # <<>>
    /\ ~closed
    /\ Len(outputChan) < QueueCap
    /\ outputChan' = Append(outputChan, Head(pending))
    /\ sent' = Append(sent, Head(pending))
    /\ pending' = Tail(pending)
    /\ UNCHANGED <<mainPc, exitCode, noColor, Model, catalog, closed, closeCount,
                   doneCount, delivered, streamOpens, metadata, err, stderr,
                   iter, pagesFetched, listCalls, listReturned>>
    /\ UNCHANGED rendererVars
    /\ UNCHANGED cfgVars

\* the result's texts are sent: the metadata is updated from it
SC_UpdateMetadata ==
    /\ mainPc = "send"
    /\ pending = <<>>
    /\ metadata' = UpdateMetadata(metadata, delivered[Len(delivered)].result)
    /\ mainPc' = "range"
    /\ UNCHANGED <<exitCode, noColor, Model, catalog, outputChan, closed, closeCount,
                   doneCount, delivered, streamOpens, pending, sent, err, stderr,
                   iter, pagesFetched, listCalls, listReturned>>
    /\ UNCHANGED rendererVars
    /\ UNCHANGED cfgVars

\* the stream is exhausted: the call time is recorded and streamContent
\* returns (metadata, nil)
SC_StreamEnd ==
    /\ mainPc = "range"
    /\ MayStop
    /\ metadata' = [metadata EXCEPT !.APICallTime = 1]
    /\ err' = NilErr
    /\ mainPc' = "close"
    /\ UNCHANGED <<exitCode, noColor, Model, catalog, outputChan, closed, closeCount,
                   doneCount, delivered, streamOpens, pending, sent, stderr,
                   iter, pagesFetched, listCalls, listReturned>>
    /\ UNCHANGED rendererVars
    /\ UNCHANGED cfgVars

\* a loop that logs an error other than not-found and goes on reading
SC_RecvError_Continue ==
    /\ mainPc = "range"
    /\ MayFail
    /\ \E e \in ErrTexts :
          /\ delivered' = Append(delivered, ErrEvent(e))
          /\ IF IsNotFound(e)
             THEN /\ stderr' = Append(stderr, <<"err", e>>)
                  /\ mainPc' = "list"
             ELSE /\ stderr' = stderr
                  /\ mainPc' = "range"
    /\ UNCHANGED <<exitCode, noColor, Model, catalog, outputChan, closed, closeCount,
                   doneCount, streamOpens, pending, sent, metadata, err,
                   iter, pagesFetched, listCalls, listReturned>>
    /\ UNCHANGED rendererVars
    /\ UNCHANGED cfgVars

\* the stream yields an error: a not-found error is printed and leads to
\* listAvailableModels, any other is returned wrapped at once
SC_RecvError ==
    /\ mainPc = "range"
    /\ MayFail
    /\ \E e \in ErrTexts :
          /\ delivered' = Append(delivered, ErrEvent(e))
          /\ IF IsNotFound(e)
             THEN /\ stderr' = Append(stderr, <<"err", e>>)
                  /\ mainPc' = "list"
                  /\ err' = err
             ELSE /\ stderr' = stderr
                  /\ mainPc' = "close"
                  /\ err' = CallFailedErr(e)
    /\ UNCHANGED <<exitCode, noColor, Model, catalog, outputChan, closed, closeCount,
                   doneCount, streamOpens, pending, sent, metadata,
                   iter, pagesFetched, listCalls, listReturned>>
    /\ UNCHANGED rendererVars
    /\ UNCHANGED cfgVars

(***************************************************************************)
(* listAvailableModels, entered on the not-found path.                     *)
(***************************************************************************)
\* a test that looks at the first supported action only
PageLines_FirstActionOnly(models) ==
    LET Line(m) == IF m.SupportedActions # <<>> /\ m.SupportedActions[1] = "generateContent"
                   THEN <<<<"model", m.Name, m.Description>>>>
                   ELSE <<>>
    IN  Concat([i \in DOMAIN models |-> Line(models[i])])

\* the lines printed for one page: the models supporting generateContent
RECURSIVE PageLines(_)
PageLines(models) ==
    IF models = <<>> THEN <<>>
    ELSE LET m == Head(models)
         IN  (IF \E i \in DOMAIN m.SupportedActions :
                     m.SupportedActions[i] = "generateContent"
              THEN <<<<"model", m.Name, m.Description>>>>
              ELSE <<>>) \o PageLines(Tail(models))

\* client.Models.List fails: logged, and listAvailableModels returns
LAM_ListFails ==
    /\ mainPc = "list"
    /\ listCalls' = listCalls + 1
    /\ stderr' = Append(stderr, <<"log", "Error listing models">>)
    /\ listReturned' = listReturned + 1
    /\ mainPc' = "retnf"
    /\ UNCHANGED <<exitCode, noColor, Model, catalog, outputChan, closed, closeCount,
                   doneCount, delivered, streamOpens, pending, sent, metadata,
                   err, iter, pagesFetched>>
    /\ UNCHANGED rendererVars
    /\ UNCHANGED cfgVars

\* client.Models.List returns the first page
LAM_ListPage ==
    /\ mainPc = "list"
    /\ listCalls' = listCalls + 1
    /\ iter' = catalog[1]
    /\ mainPc' = "page"
    /\ UNCHANGED <<exitCode, noColor, Model, catalog, outputChan, closed, closeCount,
                   doneCount, delivered, streamOpens, pending, sent, metadata,
                   err, stderr, pagesFetched, listReturned>>
    /\ UNCHANGED rendererVars
    /\ UNCHANGED cfgVars

\* the models of iter.Items that support generateContent are printed
LAM_PrintPage ==
    /\ mainPc = "page"
    /\ stderr' = stderr \o PageLines(iter)
    /\ mainPc' = "next"
    /\ UNCHANGED <<exitCode, noColor, Model, catalog, outputChan, closed, closeCount,
                   doneCount, delivered, streamOpens, pending, sent, metadata,
                   err, iter, pagesFetched, listCalls, listReturned>>
    /\ UNCHANGED rendererVars
    /\ UNCHANGED cfgVars

\* no page is left: iter.Next returns genai.ErrPageDone
LAM_NextDone ==
    /\ mainPc = "next"
    /\ pagesFetched + 1 = Len(catalog)
    /\ listReturned' = listReturned + 1
    /\ mainPc' = "retnf"
    /\ UNCHANGED <<exitCode, noColor, Model, catalog, outputChan, closed, closeCount,
                   doneCount, delivered, streamOpens, pending, sent, metadata,
                   err, stderr, iter, pagesFetched, listCalls>>
    /\ UNCHANGED rendererVars
    /\ UNCHANGED cfgVars

\* a failure of iter.Next that is returned to main as the call's error
LAM_NextFails_Propagates ==
    /\ mainPc = "next"
    /\ stderr' = Append(stderr, <<"log", "Error going to next page">>)
    /\ listReturned' = listReturned + 1
    /\ err' = CallFailedErr(<<"n", "e", "x", "t">>)
    /\ mainPc' = "close"
    /\ UNCHANGED <<exitCode, noColor, Model, catalog, outputChan, closed, closeCount,
                   doneCount, delivered, streamOpens, pending, sent, metadata,
                   iter, pagesFetched, listCalls>>
    /\ UNCHANGED rendererVars
    /\ UNCHANGED cfgVars

\* iter.Next fails: logged, and the loop ends
LAM_NextFails ==
    /\ mainPc = "next"
    /\ stderr' = Append(stderr, <<"log", "Error going to next page">>)
    /\ listReturned' = listReturned + 1
    /\ mainPc' = "retnf"
    /\ UNCHANGED <<exitCode, noColor, Model, catalog, outputChan, closed, closeCount,
                   doneCount, delivered, streamOpens, pending, sent, metadata,
                   err, iter, pagesFetched, listCalls>>
    /\ UNCHANGED rendererVars
    /\ UNCHANGED cfgVars

\* iter.Next returns the next page
LAM_NextPage ==
    /\ mainPc = "next"
    /\ pagesFetched + 1 < Len(catalog)
    /\ iter' = catalog[pagesFetched + 2]
    /\ pagesFetched' = pagesFetched + 1
    /\ mainPc' = "page"
    /\ UNCHANGED <<exitCode, noColor, Model, catalog, outputChan, closed, closeCount,
                   doneCount, delivered, streamOpens, pending, sent, metadata,
                   err, stderr, listCalls, listReturned>>
    /\ UNCHANGED rendererVars
    /\ UNCHANGED cfgVars

\* a not-found branch that closes outputChan itself before returning
SC_ReturnNotFound_Closing ==
    /\ mainPc = "retnf"
    /\ err' = UnavailableErr(Model, delivered[Len(delivered)].errText)
    /\ closed' = TRUE
    /\ closeCount' = closeCount + 1
    /\ mainPc' = "close"
    /\ UNCHANGED <<exitCode, noColor, Model, catalog, outputChan,
                   doneCount, delivered, streamOpens, pending, sent, metadata,
                   stderr, iter, pagesFetched, listCalls, listReturned>>
    /\ UNCHANGED rendererVars
    /\ UNCHANGED cfgVars

\* listAvailableModels has returned: streamContent returns the
\* model-unavailable error
SC_ReturnNotFound ==
    /\ mainPc = "retnf"
    /\ err' = UnavailableErr(Model, delivered[Len(delivered)].errText)
    /\ mainPc' = "close"
    /\ UNCHANGED <<exitCode, noColor, Model, catalog, outputChan, closed, closeCount,
                   doneCount, delivered, streamOpens, pending, sent, metadata,
                   stderr, iter, pagesFetched, listCalls, listReturned>>
    /\ UNCHANGED rendererVars
    /\ UNCHANGED cfgVars

(***************************************************************************)
(* main after streamContent has returned.                                  *)
(***************************************************************************)
\* a main that forgets close(outputChan)
Main_Close_Forgotten ==
    /\ mainPc = "close"
    /\ mainPc' = "wait"
    /\ UNCHANGED <<exitCode, noColor, Model, catalog, outputChan, closed, closeCount,
                   doneCount, delivered, streamOpens, pending, sent, metadata,
                   err, stderr, iter, pagesFetched, listCalls, listReturned>>
    /\ UNCHANGED rendererVars
    /\ UNCHANGED cfgVars

\* close(outputChan)
Main_Close ==
    /\ mainPc = "close"
    /\ closed' = TRUE
    /\ closeCount' = closeCount + 1
    /\ mainPc' = "wait"
    /\ UNCHANGED <<exitCode, noColor, Model, catalog, outputChan, doneCount, delivered,
                   streamOpens, pending, sent, metadata, err, stderr, iter,
                   pagesFetched, listCalls, listReturned>>
    /\ UNCHANGED rendererVars
    /\ UNCHANGED cfgVars

\* a main that goes on without receiving from done
Main_Done_NoWait ==
    /\ mainPc = "wait"
    /\ mainPc' = "check"
    /\ UNCHANGED <<exitCode, noColor, Model, catalog, outputChan, closed, closeCount,
                   doneCount, delivered, streamOpens, pending, sent, metadata,
                   err, stderr, iter, pagesFetched, listCalls, listReturned>>
    /\ UNCHANGED rendererVars
    /\ UNCHANGED cfgVars

\* <-done meets the renderer's done <- true (done is unbuffered)
Main_Done ==
    /\ mainPc = "wait"
    /\ rPc = "signal"
    /\ doneCount' = doneCount + 1
    /\ mainPc' = "check"
    /\ rPc' = "end"
    /\ UNCHANGED <<exitCode, noColor, Model, catalog, outputChan, closed, closeCount,
                   delivered, streamOpens, pending, sent, metadata, err, stderr,
                   iter, pagesFetched, listCalls, listReturned>>
    /\ UNCHANGED <<text, start, lastTextEndedWithNewline, stdout, printCalls, sleepCalls>>
    /\ UNCHANGED cfgVars

\* an error other than the model-unavailable one: log.Fatal(err)
Main_Fatal ==
    /\ mainPc = "check"
    /\ ~err.isNil
    /\ ~Contains(ErrorMsg(err), <<NotFoundPhrase>>)
    /\ stderr' = Append(stderr, <<"fatal", ErrorMsg(err)>>)
    /\ exitCode' = 1
    /\ mainPc' = "exited"
    /\ UNCHANGED <<noColor, Model, catalog, outputChan, closed, closeCount, doneCount,
                   delivered, streamOpens, pending, sent, metadata, err, iter,
                   pagesFetched, listCalls, listReturned>>
    /\ UNCHANGED rendererVars
    /\ UNCHANGED cfgVars

\* the model-unavailable error: os.Exit(1)
Main_Exit ==
    /\ mainPc = "check"
    /\ ~err.isNil
    /\ Contains(ErrorMsg(err), <<NotFoundPhrase>>)
    /\ exitCode' = 1
    /\ mainPc' = "exited"
    /\ UNCHANGED <<noColor, Model, catalog, outputChan, closed, closeCount, doneCount,
                   delivered, streamOpens, pending, sent, metadata, err, stderr,
                   iter, pagesFetched, listCalls, listReturned>>
    /\ UNCHANGED rendererVars
    /\ UNCHANGED cfgVars

\* a main that prints the metadata whatever streamContent returned
Main_PrintMetadata_Unconditional ==
    /\ mainPc = "check"
    /\ stderr' = Append(stderr, <<"metadata", metadata>>)
    /\ exitCode' = 0
    /\ mainPc' = "exited"
    /\ UNCHANGED <<noColor, Model, catalog, outputChan, closed, closeCount, doneCount,
                   delivered, streamOpens, pending, sent, metadata, err, iter,
                   pagesFetched, listCalls, listReturned>>
    /\ UNCHANGED rendererVars
    /\ UNCHANGED cfgVars

\* no error: printMetadata(metadata), and main returns
Main_PrintMetadata ==
    /\ mainPc = "check"
    /\ err.isNil
    /\ stderr' = Append(stderr, <<"metadata", metadata>>)
    /\ exitCode' = 0
    /\ mainPc' = "exited"
    /\ UNCHANGED <<noColor, Model, catalog, outputChan, closed, closeCount, doneCount,
                   delivered, streamOpens, pending, sent, metadata, err, iter,
                   pagesFetched, listCalls, listReturned>>
    /\ UNCHANGED rendererVars
    /\ UNCHANGED cfgVars

(***************************************************************************)
(* The renderer goroutine.                                                 *)
(***************************************************************************)
\* for text := range outputChan: a text is received
R_Recv ==
    /\ rPc = "recv"
    /\ outputChan # <<>>
    /\ text' = Head(outputChan)
    /\ outputChan' = Tail(outputChan)
    /\ start' = 0
    /\ printCalls' = 0
    /\ sleepCalls' = 0
    /\ rPc' = "loop"
    /\ UNCHANGED <<lastTextEndedWithNewline, stdout, noColor, Model, catalog, doneCount>>
    /\ UNCHANGED mainVars
    /\ UNCHANGED cfgVars

\* a renderer that sleeps after every slice
R_Print_AlwaysSleeps ==
    /\ rPc = "loop"
    /\ start < Len(text)
    /\ LET end == Min(start + charLengthPerStep, Len(text))
       IN  /\ stdout' = stdout \o SubSeq(text, start + 1, end)
           /\ start' = end
           /\ rPc' = "sleep"
    /\ printCalls' = printCalls + 1
    /\ UNCHANGED <<text, lastTextEndedWithNewline, sleepCalls, outputChan, noColor,
                   Model, catalog, doneCount>>
    /\ UNCHANGED mainVars
    /\ UNCHANGED cfgVars

\* one slice of the text is printed
R_Print ==
    /\ rPc = "loop"
    /\ start < Len(text)
    /\ LET end == Min(start + charLengthPerStep, Len(text))
       IN  /\ stdout' = stdout \o SubSeq(text, start + 1, end)
           /\ start' = end
           /\ rPc' = IF end < Len(text) THEN "sleep" ELSE "loop"
    /\ printCalls' = printCalls + 1
    /\ UNCHANGED <<text, lastTextEndedWithNewline, sleepCalls, outputChan, noColor,
                   Model, catalog, doneCount>>
    /\ UNCHANGED mainVars
    /\ UNCHANGED cfgVars

\* time.Sleep(timePerChar) between two slices
R_Sleep ==
    /\ rPc = "sleep"
    /\ rPc' = "loop"
    /\ sleepCalls' = sleepCalls + 1
    /\ UNCHANGED <<text, start, lastTextEndedWithNewline, stdout, printCalls,
                   outputChan, noColor, Model, catalog, doneCount>>
    /\ UNCHANGED mainVars
    /\ UNCHANGED cfgVars

\* a renderer whose flag an empty text leaves as it is
R_EndText_FlagKept ==
    /\ rPc = "loop"
    /\ start >= Len(text)
    /\ lastTextEndedWithNewline' =
          IF Len(text) > 0 THEN text[Len(text)] = "\n" ELSE lastTextEndedWithNewline
    /\ rPc' = "recv"
    /\ UNCHANGED <<text, start, stdout, printCalls, sleepCalls, outputChan, noColor,
                   Model, catalog, doneCount>>
    /\ UNCHANGED mainVars
    /\ UNCHANGED cfgVars

\* the text is printed: whether it ended with a newline is recorded
R_EndText ==
    /\ rPc = "loop"
    /\ start >= Len(text)
    /\ lastTextEndedWithNewline' = (Len(text) > 0 /\ text[Len(text)] = "\n")
    /\ rPc' = "recv"
    /\ UNCHANGED <<text, start, stdout, printCalls, sleepCalls, outputChan, noColor,
                   Model, catalog, doneCount>>
    /\ UNCHANGED mainVars
    /\ UNCHANGED cfgVars

\* a renderer that always ends with a newline
R_Finish_AlwaysNewline ==
    /\ rPc = "recv"
    /\ outputChan = <<>>
    /\ closed
    /\ stdout' = Append(stdout, "\n")
    /\ rPc' = "signal"
    /\ UNCHANGED <<text, start, lastTextEndedWithNewline, printCalls, sleepCalls,
                   outputChan, noColor, Model, catalog, doneCount>>
    /\ UNCHANGED mainVars
    /\ UNCHANGED cfgVars

\* a renderer that never adds the newline
R_Finish_NoNewline ==
    /\ rPc = "recv"
    /\ outputChan = <<>>
    /\ closed
    /\ stdout' = stdout
    /\ rPc' = "signal"
    /\ UNCHANGED <<text, start, lastTextEndedWithNewline, printCalls, sleepCalls,
                   outputChan, noColor, Model, catalog, doneCount>>
    /\ UNCHANGED mainVars
    /\ UNCHANGED cfgVars

\* outputChan is closed and drained: the range loop ends, and a newline is
\* printed unless the last text ended with one
R_Finish ==
    /\ rPc = "recv"
    /\ outputChan = <<>>
    /\ closed
    /\ stdout' = IF lastTextEndedWithNewline THEN stdout ELSE Append(stdout, "\n")
    /\ rPc' = "signal"
    /\ UNCHANGED <<text, start, lastTextEndedWithNewline, printCalls, sleepCalls,
                   outputChan, noColor, Model, catalog, doneCount>>
    /\ UNCHANGED mainVars
    /\ UNCHANGED cfgVars

MainNext ==
    \/ Main_CallStream
    \/ SC_RecvResult
    \/ SC_Send
    \/ SC_UpdateMetadata
    \/ SC_StreamEnd
    \/ SC_RecvError
    \/ LAM_ListFails
    \/ LAM_ListPage
    \/ LAM_PrintPage
    \/ LAM_NextDone
    \/ LAM_NextFails
    \/ LAM_NextPage
    \/ SC_ReturnNotFound
    \/ Main_Close
    \/ Main_Done
    \/ Main_Fatal
    \/ Main_Exit
    \/ Main_PrintMetadata

RendererNext ==
    \/ R_Recv
    \/ R_Print
    \/ R_Sleep
    \/ R_EndText
    \/ R_Finish

Next == MainNext \/ RendererNext

Spec == Init /\ [][Next]_vars

\* both goroutines are scheduled while they can run, and every call to the
\* remote service returns
FairSpec == Spec /\ WF_vars(MainNext) /\ WF_vars(RendererNext)

(***************************************************************************)
(* createLLMConfigs on its own: the arguments are drawn, the call is made. *)
(***************************************************************************)
CfgInit ==
    /\ PipelineInit(CHOOSE inv \in Invocations : inv.noColor)
    /\ cfgIn \in CfgInputs
    /\ cfgOut = NoCfgOutput
    /\ FnIdle

CFG_Create ==
    /\ ~cfgOut.returned
    /\ LET r == createLLMConfigs(cfgIn.task, cfgIn.modelName, cfgIn.inputText,
                                 cfgIn.enableThinking, cfgIn.requestedThinkingLevel)
       IN  cfgOut' = [returned |-> TRUE, llmRequestConfig |-> r.llmRequestConfig,
                      config |-> r.config, err |-> r.err]
    /\ UNCHANGED cfgIn
    /\ UNCHANGED fnVars
    /\ UNCHANGED mainVars
    /\ UNCHANGED rendererVars
    /\ UNCHANGED <<noColor, Model, catalog, outputChan, doneCount>>

CfgNext == CFG_Create

CfgSpec == CfgInit /\ [][CfgNext]_vars

(***************************************************************************)
(* getTaskDefinition on its own: the name is drawn, the call is made.      *)
(***************************************************************************)
TaskInit ==
    /\ PipelineInit(CHOOSE inv \in Invocations : inv.noColor)
    /\ cfgIn = NoCfgInput
    /\ cfgOut = NoCfgOutput
    /\ taskIn \in TaskNames
    /\ taskOut = NoTaskOutput
    /\ EscIdle
    /\ ClsIdle

TASK_Get ==
    /\ ~taskOut.returned
    /\ LET r == getTaskDefinition(taskIn)
       IN  taskOut' = [returned |-> TRUE, task |-> r.task, ok |-> r.ok]
    /\ UNCHANGED <<taskIn, cfgIn, cfgOut, escIn, escOut, clsIn, clsOut>>
    /\ UNCHANGED mainVars
    /\ UNCHANGED rendererVars
    /\ UNCHANGED <<noColor, Model, catalog, outputChan, doneCount>>

TaskNext == TASK_Get

TaskSpec == TaskInit /\ [][TaskNext]_vars

(***************************************************************************)
(* The escaping of the input text and the unescaping of a text of the      *)
(* stream on their own: a raw text is escaped by createLLMConfigs, the      *)
(* escaped text is unescaped as streamContent unescapes a part's text, and  *)
(* the result goes through the two once more.                               *)
(***************************************************************************)
EscInit ==
    /\ PipelineInit(CHOOSE inv \in Invocations : inv.noColor)
    /\ cfgIn = NoCfgInput
    /\ cfgOut = NoCfgOutput
    /\ TaskIdle
    /\ ClsIdle
    /\ escIn \in [task : {taskDefinitions[i] : i \in DOMAIN taskDefinitions},
                  raw : RawTexts]
    /\ escOut = NoEscOutput(escIn.raw)

\* createLLMConfigs builds InputText from the text; the escaped text is what
\* stands between the task's prefix and suffix
ESC_Escape ==
    /\ escOut.step \in {0, 2}
    /\ LET r == createLLMConfigs(escIn.task, EscModel, escOut.text, FALSE, <<>>)
           it == r.llmRequestConfig.InputText
       IN  escOut' = [step |-> escOut.step + 1,
                      text |-> SubSeq(it, Len(escIn.task.InputPrefix) + 1,
                                      Len(it) - Len(escIn.task.InputSuffix)),
                      InputText |-> it]
    /\ UNCHANGED <<escIn, cfgIn, cfgOut, taskIn, taskOut, clsIn, clsOut>>
    /\ UNCHANGED mainVars
    /\ UNCHANGED rendererVars
    /\ UNCHANGED <<noColor, Model, catalog, outputChan, doneCount>>

\* html.UnescapeString(part.Text)
ESC_Unescape ==
    /\ escOut.step \in {1, 3}
    /\ escOut' = [escOut EXCEPT !.step = @ + 1, !.text = UnescapeString(@)]
    /\ UNCHANGED <<escIn, cfgIn, cfgOut, taskIn, taskOut, clsIn, clsOut>>
    /\ UNCHANGED mainVars
    /\ UNCHANGED rendererVars
    /\ UNCHANGED <<noColor, Model, catalog, outputChan, doneCount>>

EscNext == ESC_Escape \/ ESC_Unescape

EscSpec == EscInit /\ [][EscNext]_vars

(***************************************************************************)
(* The classification of a model name on its own: the name is drawn, the   *)
(* two predicates are applied to it.                                       *)
(***************************************************************************)
ClsInit ==
    /\ PipelineInit(CHOOSE inv \in Invocations : inv.noColor)
    /\ cfgIn = NoCfgInput
    /\ cfgOut = NoCfgOutput
    /\ TaskIdle
    /\ EscIdle
    /\ clsIn \in ClsInputs
    /\ clsOut = NoClsOutput

CLS_Classify ==
    /\ ~clsOut.returned
    /\ clsOut' = [returned |-> TRUE,
                  isGemini3 |-> isGemini3Model(ClsName(clsIn)),
                  isGemini3Pro |-> isGemini3ProModel(ClsName(clsIn))]
    /\ UNCHANGED <<clsIn, cfgIn, cfgOut, taskIn, taskOut, escIn, escOut>>
    /\ UNCHANGED mainVars
    /\ UNCHANGED rendererVars
    /\ UNCHANGED <<noColor, Model, catalog, outputChan, doneCount>>

ClsNext == CLS_Classify

ClsSpec == ClsInit /\ [][ClsNext]_vars

(***************************************************************************)
(* The renderer goroutine on its own: outputChan is a chan string, and the *)
(* sender is any sender: it sends texts of RenTexts, the empty text among  *)
(* them, returns, and main closes outputChan and waits for done.           *)
(***************************************************************************)
RenTexts ==
    { <<>>,
      <<"a">>,
      <<"\n">>,
      <<"a", "\n">>,
      <<"a", "b", "c", "d", "e", "f", "\n">> }

RenInit ==
    /\ PipelineInit(CHOOSE inv \in Invocations : inv.noColor)
    /\ cfgIn = NoCfgInput
    /\ cfgOut = NoCfgOutput
    /\ FnIdle

\* outputChan <- text, for any text
REN_Send ==
    /\ mainPc = "call"
    /\ Len(sent) < MaxFragments
    /\ Len(outputChan) < QueueCap
    /\ \E t \in RenTexts :
          /\ outputChan' = Append(outputChan, t)
          /\ sent' = Append(sent, t)
    /\ UNCHANGED <<mainPc, exitCode, noColor, Model, catalog, closed, closeCount,
                   doneCount, delivered, streamOpens, pending, metadata, err,
                   stderr, iter, pagesFetched, listCalls, listReturned>>
    /\ UNCHANGED rendererVars
    /\ UNCHANGED cfgVars

\* the sender returns
REN_Return ==
    /\ mainPc = "call"
    /\ mainPc' = "close"
    /\ UNCHANGED <<exitCode, noColor, Model, catalog, outputChan, closed, closeCount,
                   doneCount, delivered, streamOpens, pending, sent, metadata,
                   err, stderr, iter, pagesFetched, listCalls, listReturned>>
    /\ UNCHANGED rendererVars
    /\ UNCHANGED cfgVars

RenNext ==
    \/ REN_Send
    \/ REN_Return
    \/ Main_Close
    \/ Main_Done
    \/ RendererNext

RenSpec == RenInit /\ [][RenNext]_vars

(***************************************************************************)
(* listAvailableModels on its own: streamContent has taken a not-found     *)
(* error as the first event of the stream and printed it, and the remote   *)
(* catalog is any of Catalogs.                                             *)
(***************************************************************************)
LamInit ==
    /\ \E inv \in Invocations : noColor = inv.noColor /\ Model = inv.Model
    /\ catalog \in Catalogs
    /\ \E e \in {t \in ErrTexts : IsNotFound(t)} :
          /\ delivered = <<ErrEvent(e)>>
          /\ stderr = << <<"err", e>> >>
    /\ mainPc = "list"
    /\ streamOpens = 1
    /\ exitCode = -1
    /\ outputChan = <<>>
    /\ closed = FALSE
    /\ closeCount = 0
    /\ doneCount = 0
    /\ pending = <<>>
    /\ sent = <<>>
    /\ metadata = ZeroMetadata
    /\ err = NilErr
    /\ iter = <<>>
    /\ pagesFetched = 0
    /\ listCalls = 0
    /\ listReturned = 0
    /\ rPc = "recv"
    /\ text = <<>>
    /\ start = 0
    /\ lastTextEndedWithNewline = FALSE
    /\ stdout = <<>>
    /\ printCalls = 0
    /\ sleepCalls = 0
    /\ cfgIn = NoCfgInput
    /\ cfgOut = NoCfgOutput
    /\ FnIdle

LamNext ==
    \/ LAM_ListFails
    \/ LAM_ListPage
    \/ LAM_PrintPage
    \/ LAM_NextDone
    \/ LAM_NextFails
    \/ LAM_NextPage

LamSpec == LamInit /\ [][LamNext]_vars

(***************************************************************************)
(* Properties of the pipeline.                                             *)
(***************************************************************************)
Last(q) == q[Len(q)]

IsPrefix(p, q) == Len(p) <= Len(q) /\ SubSeq(q, 1, Len(p)) = p

\* the texts streamContent forwards for the results among the events evs
RECURSIVE ForwardedOf(_)
ForwardedOf(evs) ==
    IF evs = <<>> THEN <<>>
    ELSE (IF Head(evs).errNil THEN ResultOut(Head(evs).result) ELSE <<>>)
         \o ForwardedOf(Tail(evs))

\* the fragments followed by one newline unless the last fragment ends with one
WithFinalNewline(frags) ==
    Concat(frags) \o
    (IF frags # <<>> /\ Last(frags) # <<>> /\ Last(Last(frags)) = "\n"
     THEN <<>> ELSE <<"\n">>)

HasErr == delivered # <<>> /\ ~Last(delivered).errNil

\* streamContent has returned to main
Returned == mainPc \in {"close", "wait", "check", "exited"}

RendererDone == rPc \in {"signal", "end"}

\* C1: once outputChan is closed and drained, standard output holds the
\* fragments sent on it, in order, followed by one newline exactly when the
\* last fragment does not end with a newline; before that it holds a prefix
\* of the fragments.
C1_RendererOutput ==
    /\ RendererDone => stdout = WithFinalNewline(sent)
    /\ ~RendererDone => IsPrefix(stdout, Concat(sent))

C1_Witness ==
    /\ rPc = "end"
    /\ Len(sent) >= 2
    /\ Last(Last(sent)) = "\n"
    /\ stdout = Concat(sent)

\* C2: outputChan is closed exactly once on every exit path of the stream
\* loop, only after every text of every delivered result has been sent, and
\* nothing is sent once it is closed.
C2_ClosedOnce ==
    /\ closeCount <= 1
    /\ closed <=> closeCount = 1
    /\ mainPc \in {"wait", "check", "exited"} => closed
    /\ closed => /\ mainPc \in {"wait", "check", "exited"}
                 /\ pending = <<>>
                 /\ sent = ForwardedOf(delivered)

C2_Witness ==
    /\ closed
    /\ closeCount = 1
    /\ HasErr
    /\ err.kind = "unavailable"
    /\ sent # <<>>

\* C3: nothing is written to the diagnostic stream before every fragment
\* sent on outputChan is on standard output and the renderer has signalled
\* done.
C3_DiagnosticsAfterRendering ==
    [][Len(stderr') > Len(stderr)
        => /\ doneCount = 1
           /\ outputChan = <<>>
           /\ stdout = WithFinalNewline(sent)]_vars

MainRank ==
    LET base == 9 + 2 * MaxPages
        left == BurstLen - Len(delivered)
    IN  CASE mainPc = "exited" -> 0
          [] mainPc = "check" -> 1
          [] mainPc = "wait" -> 2
          [] mainPc = "close" -> 3
          [] mainPc = "retnf" -> 4
          [] mainPc = "next" -> 5 + 2 * (MaxPages - pagesFetched)
          [] mainPc = "page" -> 6 + 2 * (MaxPages - pagesFetched)
          [] mainPc = "list" -> 8 + 2 * MaxPages
          [] mainPc = "range" -> base + 20 * left + 10
          [] mainPc = "send" -> base + 20 * left + 11 + Len(pending)
          [] mainPc = "call" -> base + 20 * BurstLen + 40

RECURSIVE QueueRank(_)
QueueRank(q) ==
    IF q = <<>> THEN 0 ELSE 2 * Len(Head(q)) + 3 + QueueRank(Tail(q))

RendererRank ==
    CASE rPc = "end" -> 0
      [] rPc = "signal" -> 1
      [] rPc = "recv" -> 2 + QueueRank(outputChan)
      [] rPc = "loop" -> 3 + 2 * (Len(text) - start) + QueueRank(outputChan)
      [] rPc = "sleep" -> 4 + 2 * (Len(text) - start) + QueueRank(outputChan)

Terminated == mainPc = "exited" /\ rPc = "end"

\* C5: no state but the final one is a deadlock, also when the producer
\* waits on a full queue; every step lowers the rank, so that under fair
\* scheduling of the two goroutines every run ends; and it ends with the
\* queue closed and drained, done signalled once, the renderer ended and main
\* past its wait, on each exit path.
C5_Terminates ==
    /\ [](Terminated \/ ENABLED Next)
    /\ [][\/ MainRank' < MainRank
          \/ MainRank' = MainRank /\ RendererRank' < RendererRank]_vars
    /\ [](doneCount <= 1)
    /\ [](Terminated => closed /\ outputChan = <<>> /\ doneCount = 1)

C5_Witness ==
    /\ mainPc = "send"
    /\ pending # <<>>
    /\ Len(outputChan) = QueueCap
    /\ rPc = "loop"

\* C6: when the error delivered contains "404" or "not found" and
\* streamContent has returned, listAvailableModels was entered once and has
\* returned, and the error returned is the model-unavailable error with the
\* requested model and the cause; listAvailableModels is never entered twice.
C6_NotFoundPath ==
    /\ listCalls <= 1
    /\ listReturned <= listCalls
    /\ (/\ Returned
        /\ HasErr
        /\ \/ Contains(Last(delivered).errText, <<"4", "0", "4">>)
           \/ Contains(Last(delivered).errText,
                       <<"n", "o", "t", " ", "f", "o", "u", "n", "d">>))
       => /\ listCalls = 1
          /\ listReturned = 1
          /\ err = [isNil |-> FALSE, kind |-> "unavailable", model |-> Model,
                    cause |-> Last(delivered).errText]

C6_Witness ==
    /\ Returned
    /\ HasErr
    /\ Last(delivered).errText = <<"n", "o", "t", " ", "f", "o", "u", "n", "d">>
    /\ err.kind = "unavailable"
    /\ pagesFetched = 1

\* C7: an error is the last event streamContent takes from the stream:
\* nothing is read or sent after it, the stream is opened once, and no
\* successful result is returned; an error containing neither "404" nor
\* "not found" is returned as the call-failed error with the cause, and
\* listAvailableModels is not entered.
C7_StopsAtFirstError ==
    /\ \A i \in 1..(Len(delivered) - 1) : delivered[i].errNil
    /\ streamOpens <= 1
    /\ HasErr =>
         /\ mainPc \notin {"call", "range", "send"}
         /\ pending = <<>>
         /\ sent = ForwardedOf(SubSeq(delivered, 1, Len(delivered) - 1))
         /\ metadata.APICallTime = 0
         /\ Returned => ~err.isNil
         /\ (/\ Returned
             /\ ~Contains(Last(delivered).errText, <<"4", "0", "4">>)
             /\ ~Contains(Last(delivered).errText,
                          <<"n", "o", "t", " ", "f", "o", "u", "n", "d">>))
            => /\ err = [isNil |-> FALSE, kind |-> "failed", model |-> <<>>,
                         cause |-> Last(delivered).errText]
               /\ listCalls = 0

C7_Witness ==
    /\ mainPc = "exited"
    /\ HasErr
    /\ err.kind = "failed"
    /\ Len(delivered) = 3
    /\ sent # <<>>

C9_BudgetAlwaysPresent ==
    (cfgOut.returned /\ ~isGemini3Model(cfgIn.modelName))
       => /\ cfgOut.err.isNil
          /\ cfgOut.llmRequestConfig.ThinkingBudget =
                [isNil |-> FALSE, value |-> IF cfgIn.enableThinking THEN 1024 ELSE 0]
          /\ cfgOut.config.ThinkingConfig.ThinkingBudget =
                cfgOut.llmRequestConfig.ThinkingBudget

C9_Witness ==
    /\ cfgOut.returned
    /\ ~isGemini3Model(cfgIn.modelName)
    /\ ~cfgIn.enableThinking
    /\ cfgIn.requestedThinkingLevel = <<"H", "I", "G", "H">>
    /\ cfgOut.llmRequestConfig.ThinkingBudget = [isNil |-> FALSE, value |-> 0]

\* C10: for a gemini-3 model and a blank level the call succeeds with level
\* low when thinking is disabled and high when it is enabled, for
\* gemini-3-pro models as well.
C10_DefaultLevel ==
    (/\ cfgOut.returned
     /\ isGemini3Model(cfgIn.modelName)
     /\ cfgIn.requestedThinkingLevel \in {<<>>, <<" ">>})
       => /\ cfgOut.err.isNil
          /\ cfgOut.llmRequestConfig.ThinkingLevel =
                IF cfgIn.enableThinking THEN "HIGH" ELSE "LOW"
          /\ cfgOut.config.ThinkingConfig.ThinkingLevel =
                cfgOut.llmRequestConfig.ThinkingLevel

C10_Witness ==
    /\ cfgOut.returned
    /\ isGemini3ProModel(cfgIn.modelName)
    /\ cfgIn.requestedThinkingLevel = <<" ">>
    /\ ~cfgIn.enableThinking
    /\ cfgOut.llmRequestConfig.ThinkingLevel = "LOW"

\* the names of the model that belong to the gemini-3-pro family, and those
\* of the gemini-3 family outside it
ProNames ==
    { <<"g", "e", "m", "i", "n", "i", "-", "3", "-", "p", "r", "o", "-", "p", "r", "e", "v", "i", "e", "w">>,
      <<" ", "M", "o", "d", "e", "l", "s", "/", "G", "e", "m", "i", "n", "i", "-", "3", "-", "P", "r", "o", " ">> }
OtherG3Names ==
    { <<"g", "e", "m", "i", "n", "i", "-", "3", "-", "f", "l", "a", "s", "h", "-", "p", "r", "e", "v", "i", "e", "w">>,
      <<"m", "o", "d", "e", "l", "s", "/", "g", "e", "m", "i", "n", "i", "-", "3">> }

\* the level requested, trimmed and lower-cased
RequestedLevel == ToLower(TrimSpace(cfgIn.requestedThinkingLevel))

\* the call failed and returned no request configuration
CfgFailed ==
    /\ ~cfgOut.err.isNil
    /\ cfgOut.llmRequestConfig =
          [SystemInstruction |-> "", Model |-> <<>>, MaxTokens |-> 0,
           InputText |-> <<>>, IncludeThoughts |-> FALSE,
           ThinkingBudget |-> [isNil |-> TRUE, value |-> 0], ThinkingLevel |-> ""]
    /\ cfgOut.config.isNil

\* the error's message holds the model name as it was given
ErrNamesModel == Contains(CfgErrorMsg(cfgOut.err), cfgIn.modelName)

\* C11 as claimed: for a gemini-3-pro model the call returns a request
\* configuration with level low or high, or else an error whose message names
\* the model and no request configuration; minimal and medium yield that
\* error, and are accepted for gemini-3 models that are not gemini-3-pro.
C11_ProErrorNamesModel ==
    /\ (cfgOut.returned /\ cfgIn.modelName \in ProNames)
          => \/ cfgOut.err.isNil /\ cfgOut.llmRequestConfig.ThinkingLevel \in {"LOW", "HIGH"}
             \/ CfgFailed /\ ErrNamesModel
    /\ (/\ cfgOut.returned
        /\ cfgIn.modelName \in ProNames
        /\ RequestedLevel \in {<<"m", "i", "n", "i", "m", "a", "l">>, <<"m", "e", "d", "i", "u", "m">>})
          => CfgFailed /\ ErrNamesModel
    /\ (/\ cfgOut.returned
        /\ cfgIn.modelName \in OtherG3Names
        /\ RequestedLevel \in {<<"m", "i", "n", "i", "m", "a", "l">>, <<"m", "e", "d", "i", "u", "m">>})
          => /\ cfgOut.err.isNil
             /\ cfgOut.llmRequestConfig.ThinkingLevel =
                   IF RequestedLevel = <<"m", "e", "d", "i", "u", "m">>
                   THEN "MEDIUM" ELSE "MINIMAL"

\* C11: for a gemini-3-pro model the call returns a request configuration
\* with level low or high, or else an error and no request configuration;
\* the error's message names the model when the level requested is minimal
\* or medium, and names the level as given when the level requested is none
\* of minimal, low, medium, high; minimal and medium are accepted for
\* gemini-3 models that are not gemini-3-pro.
C11_ProLevelRestricted ==
    /\ (cfgOut.returned /\ cfgIn.modelName \in ProNames)
          => \/ cfgOut.err.isNil /\ cfgOut.llmRequestConfig.ThinkingLevel \in {"LOW", "HIGH"}
             \/ CfgFailed
    /\ (/\ cfgOut.returned
        /\ cfgIn.modelName \in ProNames
        /\ RequestedLevel \in {<<"m", "i", "n", "i", "m", "a", "l">>, <<"m", "e", "d", "i", "u", "m">>})
          => CfgFailed /\ ErrNamesModel
    /\ (/\ cfgOut.returned
        /\ cfgIn.modelName \in ProNames
        /\ RequestedLevel \notin {<<>>, <<"m", "i", "n", "i", "m", "a", "l">>, <<"l", "o", "w">>,
                                   <<"m", "e", "d", "i", "u", "m">>, <<"h", "i", "g", "h">>})
          => /\ CfgFailed
             /\ ~ErrNamesModel
             /\ Contains(CfgErrorMsg(cfgOut.err), cfgIn.requestedThinkingLevel)
    /\ (/\ cfgOut.returned
        /\ cfgIn.modelName \in OtherG3Names
        /\ RequestedLevel \in {<<"m", "i", "n", "i", "m", "a", "l">>, <<"m", "e", "d", "i", "u", "m">>})
          => /\ cfgOut.err.isNil
             /\ cfgOut.llmRequestConfig.ThinkingLevel =
                   IF RequestedLevel = <<"m", "e", "d", "i", "u", "m">>
                   THEN "MEDIUM" ELSE "MINIMAL"

C11_Witness ==
    /\ cfgOut.returned
    /\ cfgIn.modelName = <<" ", "M", "o", "d", "e", "l", "s", "/", "G", "e", "m", "i", "n", "i", "-", "3", "-", "P", "r", "o", " ">>
    /\ cfgIn.requestedThinkingLevel = <<" ", "M", "e", "d", "i", "u", "m", " ">>
    /\ cfgOut.err.kind = "low or high only"
    /\ cfgOut.config.isNil

\* the names of the model outside the gemini-3 family
NonG3Names ==
    { <<"g", "e", "m", "i", "n", "i", "-", "2", ".", "5", "-", "f", "l", "a", "s", "h">>,
      <<"x", "g", "e", "m", "i", "n", "i", "-", "3">>,
      <<"m", "o", "d", "e", "l", "s", "/", "m", "o", "d", "e", "l", "s", "/", "g", "e", "m", "i", "n", "i", "-", "3", "-", "p", "r", "o">> }

\* C12: for a model that is not gemini-3 and thinking disabled, the token
\* ceiling is the number of characters of the input text times the task's
\* multiplier plus the task's base, for multi-byte text as well.
C12_CeilingFromCharacters ==
    (cfgOut.returned /\ cfgIn.modelName \in NonG3Names /\ ~cfgIn.enableThinking)
       => /\ cfgOut.err.isNil
          /\ cfgOut.llmRequestConfig.MaxTokens =
                Len(cfgIn.inputText) * cfgIn.task.MaxTokensMultiplier
                + cfgIn.task.MaxTokensBase

C14_OneRepresentation ==
    (cfgOut.returned /\ cfgOut.err.isNil)
       => /\ cfgIn.modelName \in OtherG3Names \cup ProNames
               => /\ cfgOut.llmRequestConfig.ThinkingLevel
                        \in {"MINIMAL", "LOW", "MEDIUM", "HIGH"}
                  /\ cfgOut.llmRequestConfig.ThinkingBudget.isNil
          /\ cfgIn.modelName \in NonG3Names
               => /\ cfgOut.llmRequestConfig.ThinkingLevel = ""
                  /\ ~cfgOut.llmRequestConfig.ThinkingBudget.isNil
                  /\ cfgOut.llmRequestConfig.ThinkingBudget.value >= 0
          /\ ~cfgOut.config.isNil
          /\ cfgOut.config.ThinkingConfig.ThinkingLevel =
                cfgOut.llmRequestConfig.ThinkingLevel
          /\ cfgOut.config.ThinkingConfig.ThinkingBudget =
                cfgOut.llmRequestConfig.ThinkingBudget
          /\ cfgOut.config.MaxOutputTokens = cfgOut.llmRequestConfig.MaxTokens

C14_Witness ==
    /\ cfgOut.returned
    /\ cfgIn.modelName \in OtherG3Names
    /\ cfgIn.enableThinking
    /\ cfgIn.requestedThinkingLevel = <<"m", "i", "n", "i", "m", "a", "l">>
    /\ cfgOut.config.ThinkingConfig.ThinkingLevel = "MINIMAL"
    /\ cfgOut.config.ThinkingConfig.ThinkingBudget.isNil

\* C15: a call that requests a level for a model that is not gemini-3 fails
\* and returns no request configuration.
C15_LevelOutsideG3IsError ==
    (/\ cfgOut.returned
     /\ cfgIn.modelName \in NonG3Names
     /\ TrimSpace(cfgIn.requestedThinkingLevel) # <<>>)
       => CfgFailed

\* C16: for a gemini-3 model and a level that is not blank, the level is
\* compared trimmed and lower-cased with minimal, low, medium, high: when it
\* is none of them the call fails with the invalid-level error and returns no
\* request configuration; when it is one of them the level resolved is that
\* one whether thinking is enabled or not, so that the call returns it, or
\* fails with the low-or-high-only error for a gemini-3-pro model and
\* minimal or medium.
C16_ExplicitLevel ==
    (/\ cfgOut.returned
     /\ cfgIn.modelName \in OtherG3Names \cup ProNames
     /\ RequestedLevel # <<>>)
       => LET known == RequestedLevel \in
                          {<<"m", "i", "n", "i", "m", "a", "l">>, <<"l", "o", "w">>,
                           <<"m", "e", "d", "i", "u", "m">>, <<"h", "i", "g", "h">>}
              level == CASE RequestedLevel = <<"m", "i", "n", "i", "m", "a", "l">> -> "MINIMAL"
                         [] RequestedLevel = <<"l", "o", "w">> -> "LOW"
                         [] RequestedLevel = <<"m", "e", "d", "i", "u", "m">> -> "MEDIUM"
                         [] RequestedLevel = <<"h", "i", "g", "h">> -> "HIGH"
                         [] OTHER -> ""
              refused == cfgIn.modelName \in ProNames /\ level \in {"MINIMAL", "MEDIUM"}
          IN  /\ ~known => CfgFailed /\ cfgOut.err.kind = "invalid think-level"
              /\ (known /\ ~refused)
                    => /\ cfgOut.err.isNil
                       /\ cfgOut.llmRequestConfig.ThinkingLevel = level
              /\ (known /\ refused)
                    => CfgFailed /\ cfgOut.err.kind = "low or high only"

C16_Witness ==
    /\ cfgOut.returned
    /\ cfgIn.modelName \in OtherG3Names
    /\ cfgIn.requestedThinkingLevel = <<" ", "M", "e", "d", "i", "u", "m", " ">>
    /\ ~cfgIn.enableThinking
    /\ cfgOut.llmRequestConfig.ThinkingLevel = "MEDIUM"

(***************************************************************************)
(* Properties of the metadata.                                             *)
(***************************************************************************)
\* the events whose result streamContent has gone through entirely
Processed ==
    IF mainPc = "send" THEN SubSeq(delivered, 1, Len(delivered) - 1) ELSE delivered

\* the counters of the last result among evs that carries a usage snapshot,
\* as <<prompt, candidates, thoughts, total>>
RECURSIVE LastUsage(_)
LastUsage(evs) ==
    IF evs = <<>> THEN <<0, 0, 0, 0>>
    ELSE LET e == evs[Len(evs)]
         IN  IF e.errNil /\ ~e.result.isNil /\ ~e.result.UsageMetadata.isNil
             THEN <<e.result.UsageMetadata.PromptTokenCount,
                    e.result.UsageMetadata.CandidatesTokenCount,
                    e.result.UsageMetadata.ThoughtsTokenCount,
                    e.result.UsageMetadata.TotalTokenCount>>
             ELSE LastUsage(SubSeq(evs, 1, Len(evs) - 1))

\* the last model version among the results of evs that is not empty
RECURSIVE LastVersion(_)
LastVersion(evs) ==
    IF evs = <<>> THEN ""
    ELSE LET e == evs[Len(evs)]
         IN  IF e.errNil /\ ~e.result.isNil /\ e.result.ModelVersion # ""
             THEN e.result.ModelVersion
             ELSE LastVersion(SubSeq(evs, 1, Len(evs) - 1))

\* C17: the four token counters of the metadata are those of the last result
\* gone through that carries a usage snapshot (zero when none did): a snapshot
\* overwrites them, and a result without one leaves them as they are.
C17_CountersOverwritten ==
    <<metadata.PromptTokenCount, metadata.CandidatesTokenCount,
      metadata.ThoughtsTokenCount, metadata.TotalTokenCount>> = LastUsage(Processed)

C17_Witness ==
    /\ mainPc = "exited"
    /\ Len(delivered) = 2
    /\ delivered[1].result.UsageMetadata.TotalTokenCount = 6
    /\ delivered[2].result.UsageMetadata.TotalTokenCount = 9
    /\ metadata.TotalTokenCount = 9
    /\ metadata.ThoughtsTokenCount = 0

\* C18: the model version of the metadata is the last model version among the
\* results gone through that is not empty: a later result with an empty
\* model version does not erase it.
C18_LastNonEmptyVersion ==
    metadata.ModelVersion = LastVersion(Processed)

(***************************************************************************)
(* Properties of listAvailableModels.                                      *)
(***************************************************************************)
\* the lines of the diagnostic stream of one kind
LinesOf(kind) == SelectSeq(stderr, LAMBDA l : l[1] = kind)

\* the lines of the models among ms whose supported actions hold
\* generateContent, in the order of ms
GeneratingLines(ms) ==
    LET gen == SelectSeq(ms, LAMBDA m :
                   "generateContent" \in
                       {m.SupportedActions[j] : j \in DOMAIN m.SupportedActions})
    IN  [i \in DOMAIN gen |-> <<"model", gen[i].Name, gen[i].Description>>]

\* the first listing call failed
ListFailed == \E i \in DOMAIN stderr : stderr[i] = <<"log", "Error listing models">>

\* a next-page call failed
NextFailed == \E i \in DOMAIN stderr : stderr[i] = <<"log", "Error going to next page">>

\* C19: a failure of the listing call or of a next-page call is logged, ends
\* listAvailableModels (no page is fetched or printed after it) and is not
\* returned: streamContent returns the model-unavailable error with the
\* requested model and the stream's error as its cause, whether the
\* discovery failed or not, and main exits on it the same way.
C19_DiscoveryFailureLoggedOnly ==
    /\ Len(LinesOf("log")) <= 1
    /\ (ListFailed \/ NextFailed)
          => /\ mainPc \in {"retnf", "close", "wait", "check", "exited"}
             /\ listReturned = 1
             /\ stderr[Len(LinesOf("err")) + Len(LinesOf("model")) + 1][1] = "log"
    /\ ListFailed => LinesOf("model") = <<>> /\ pagesFetched = 0
    /\ (Returned /\ listCalls = 1)
          => err = [isNil |-> FALSE, kind |-> "unavailable", model |-> Model,
                    cause |-> Last(delivered).errText]
    /\ (mainPc = "exited" /\ listCalls = 1)
          => exitCode = 1 /\ LinesOf("fatal") = <<>>

C19_Witness ==
    /\ mainPc = "exited"
    /\ NextFailed
    /\ pagesFetched = 1
    /\ Len(LinesOf("model")) >= 2
    /\ err.kind = "unavailable"
    /\ sent # <<>>

\* the pages listAvailableModels has printed
PagesPrinted ==
    CASE mainPc = "list" -> 0
      [] mainPc = "page" -> pagesFetched
      [] ListFailed -> 0
      [] OTHER -> pagesFetched + 1

\* C20: listAvailableModels goes through the pages of the catalog in order
\* and prints, in the order of the catalog, the models of every page fetched
\* whose supported actions hold generateContent, and no other model; it
\* returns when no page is left, every page printed, the last one included,
\* or at the first failure, the pages fetched before it printed; and it
\* always returns: no state before the return is a deadlock and every step
\* lowers the rank.
C20_ListsGeneratingModels ==
    /\ [](/\ pagesFetched < Len(catalog)
          /\ mainPc \in {"page", "next"} => iter = catalog[pagesFetched + 1]
          /\ LinesOf("model") =
                GeneratingLines(Concat(SubSeq(catalog, 1, PagesPrinted)))
          /\ (mainPc = "retnf" /\ ~ListFailed /\ ~NextFailed)
                => PagesPrinted = Len(catalog)
          /\ mainPc = "retnf" => listCalls = 1 /\ listReturned = 1)
    /\ [](mainPc = "retnf" \/ ENABLED LamNext)
    /\ [][MainRank' < MainRank]_vars

C20_Witness ==
    /\ mainPc = "retnf"
    /\ ~ListFailed
    /\ ~NextFailed
    /\ pagesFetched = 1
    /\ catalog[1] # <<>>
    /\ Len(LinesOf("model")) = 3

(***************************************************************************)
(* Properties of getTaskDefinition.                                        *)
(***************************************************************************)
\* the name given, trimmed and lower-cased
RequestedTask == ToLower(TrimSpace(taskIn))

\* C21: getTaskDefinition finds the translate task for a name that is,
\* trimmed and lower-cased, empty or translate, the tech-qa task for tech-qa
\* and for its aliases qa and question, and nothing for any other name, such
\* as bogus; it then returns TaskDefinition{} and false; the call reaches
\* neither the stream nor the model listing.
C21_TaskResolution ==
    taskOut.returned
       => /\ RequestedTask \in {<<>>, <<"t", "r", "a", "n", "s", "l", "a", "t", "e">>}
               => /\ taskOut.ok
                  /\ taskOut.task.Name = <<"t", "r", "a", "n", "s", "l", "a", "t", "e">>
                  /\ taskOut.task.MaxTokensMultiplier = 10
                  /\ taskOut.task.MaxTokensBase = 0
          /\ RequestedTask \in {<<"t", "e", "c", "h", "-", "q", "a">>, <<"q", "a">>, <<"q", "u", "e", "s", "t", "i", "o", "n">>}
               => /\ taskOut.ok
                  /\ taskOut.task.Name = <<"t", "e", "c", "h", "-", "q", "a">>
                  /\ taskOut.task.MaxTokensMultiplier = 0
                  /\ taskOut.task.MaxTokensBase = 512
          /\ RequestedTask \notin {<<>>, <<"t", "r", "a", "n", "s", "l", "a", "t", "e">>, <<"t", "e", "c", "h", "-", "q", "a">>, <<"q", "a">>, <<"q", "u", "e", "s", "t", "i", "o", "n">>}
               => /\ ~taskOut.ok
                  /\ taskOut.task.Name = <<>>
                  /\ taskOut.task.InputPrefix = <<>>
                  /\ taskOut.task.MaxTokensBase = 0
          /\ streamOpens = 0
          /\ listCalls = 0

C21_Witness ==
    /\ taskOut.returned
    /\ taskIn = <<"\t", " ", "Q", "A", "\n">>
    /\ taskOut.ok
    /\ taskOut.task.Name = <<"t", "e", "c", "h", "-", "q", "a">>

(***************************************************************************)
(* Properties of the escaping.                                             *)
(***************************************************************************)
\* the raw input text with each of & ' < > " replaced by its character
\* reference
EscapedRaw ==
    Concat([i \in DOMAIN escIn.raw |->
              CASE escIn.raw[i] = "&" -> <<"&", "a", "m", "p", ";">>
                [] escIn.raw[i] = "<" -> <<"&", "l", "t", ";">>
                [] escIn.raw[i] = ">" -> <<"&", "g", "t", ";">>
                [] escIn.raw[i] = "'" -> <<"&", "#", "3", "9", ";">>
                [] escIn.raw[i] = "\"" -> <<"&", "#", "3", "4", ";">>
                [] OTHER -> <<escIn.raw[i]>>])

\* C22: the escaped raw input text, unescaped, is the raw input text, and so
\* it is after a second escaping and unescaping; InputText is the task's
\* prefix, the escaped text and the task's suffix.
C22_RoundTrip ==
    /\ escOut.step \in {2, 4} => escOut.text = escIn.raw
    /\ escOut.step \in {1, 3} => escOut.text = EscapedRaw
    /\ escOut.step >= 1
          => escOut.InputText =
                escIn.task.InputPrefix \o EscapedRaw \o escIn.task.InputSuffix

C22_Witness ==
    /\ escOut.step = 4
    /\ escIn.raw = <<"&", "l", "t", ";">>
    /\ escOut.text = <<"&", "l", "t", ";">>
    /\ Len(escOut.InputText) = 21

(***************************************************************************)
(* Properties of the queue between streamContent and the renderer.         *)
(***************************************************************************)
\* the variables of streamContent
consumerState ==
    <<delivered, streamOpens, pending, sent, metadata, err, stderr, iter,
      pagesFetched, listCalls, listReturned>>

\* streamContent is about to send a text
AtSend == mainPc = "send" /\ pending # <<>>

\* streamContent is running and is not about to send a text
InConsumerElsewhere ==
    \/ mainPc \in {"range", "list", "page", "next", "retnf"}
    \/ mainPc = "send" /\ pending = <<>>

\* C23: outputChan never holds more than QueueCap texts; a send of
\* streamContent can take place exactly when outputChan holds fewer, and a
\* waiting send is released by the renderer's receive only; everywhere else in
\* streamContent a step is possible whatever the renderer does; and no step
\* changes variables of both streamContent and the renderer: outputChan grows
\* by the sender's text at its end and shrinks by its head only.
C23_Backpressure ==
    /\ [](/\ Len(outputChan) <= QueueCap
          /\ AtSend => (ENABLED SC_Send <=> Len(outputChan) < QueueCap)
          /\ InConsumerElsewhere => ENABLED MainNext)
    /\ [][/\ (AtSend /\ Len(outputChan) = QueueCap /\ Len(outputChan') < QueueCap)
               => /\ rPc = "recv"
                  /\ text' = Head(outputChan)
                  /\ outputChan' = Tail(outputChan)
                  /\ AtSend'
          /\ UNCHANGED rendererVars \/ UNCHANGED consumerState
          /\ outputChan' # outputChan
               => \/ /\ AtSend
                     /\ outputChan' = Append(outputChan, Head(pending))
                     /\ UNCHANGED rendererVars
                  \/ /\ outputChan' = Tail(outputChan)
                     /\ UNCHANGED consumerState
                     /\ UNCHANGED mainPc]_vars

C23_Witness ==
    /\ AtSend
    /\ Len(outputChan) = QueueCap
    /\ rPc = "recv"
    /\ stdout # <<>>

(***************************************************************************)
(* Properties of the classification of model names.                        *)
(***************************************************************************)
\* the names that start with gemini-3 in some letter case, and those of
\* them that start with gemini-3-pro
G3Bases ==
    { <<"g", "e", "m", "i", "n", "i", "-", "3">>,
      <<"G", "e", "m", "i", "n", "i", "-", "3", "-", "P", "r", "o">>,
      <<"g", "e", "m", "i", "n", "i", "-", "3", "-", "p", "r", "o", "-", "p", "r", "e", "v", "i", "e", "w">>,
      <<"G", "E", "M", "I", "N", "I", "-", "3", "-", "P", "R", "O">>,
      <<"g", "e", "m", "i", "n", "i", "-", "3", "-", "f", "l", "a", "s", "h", "-", "p", "r", "e", "v", "i", "e", "w">>,
      <<"g", "e", "m", "i", "n", "i", "-", "3", "0">>,
      <<"g", "e", "m", "i", "n", "i", "-", "3", "-", "p", "r">>,
      <<"g", "e", "m", "i", "n", "i", "-", "3", ".", "1", "-", "p", "r", "o">> }

G3ProBases ==
    { <<"G", "e", "m", "i", "n", "i", "-", "3", "-", "P", "r", "o">>,
      <<"g", "e", "m", "i", "n", "i", "-", "3", "-", "p", "r", "o", "-", "p", "r", "e", "v", "i", "e", "w">>,
      <<"G", "E", "M", "I", "N", "I", "-", "3", "-", "P", "R", "O">> }

\* the prefixes that are empty or one models/ in some letter case
StrippedNamespaces == { <<>>, <<"m", "o", "d", "e", "l", "s", "/">>, <<"M", "o", "d", "e", "l", "s", "/">> }

\* C24: whatever the white space around the name, a name is classified
\* Gemini 3 exactly when, after at most one models/ prefix in any letter
\* case, it starts with gemini-3 in any letter case, and Gemini 3 Pro exactly
\* when it starts with gemini-3-pro; a second models/ prefix, or a space
\* after the prefix, is not removed; every Gemini 3 Pro name is a Gemini 3
\* name.
C24_Classification ==
    clsOut.returned
       => /\ clsOut.isGemini3
               <=> (clsIn.ns \in StrippedNamespaces /\ clsIn.base \in G3Bases)
          /\ clsOut.isGemini3Pro
               <=> (clsIn.ns \in StrippedNamespaces /\ clsIn.base \in G3ProBases)
          /\ clsOut.isGemini3Pro => clsOut.isGemini3

C24_Witness ==
    /\ clsOut.returned
    /\ clsIn = [lead |-> <<"\t", " ">>, ns |-> <<"M", "o", "d", "e", "l", "s", "/">>, base |-> <<"G", "e", "m", "i", "n", "i", "-", "3", "-", "P", "r", "o">>, trail |-> <<"\n">>]
    /\ clsOut.isGemini3Pro
    /\ clsOut.isGemini3

(***************************************************************************)
(* Properties of the slices and the delays of the renderer.                *)
(***************************************************************************)
\* the least number of slices of at most d characters that cover n characters
CeilDiv(n, d) == (n + d - 1) \div d

\* the renderer has printed the whole of a text that is not empty
TextRendered == rPc \notin {"loop", "sleep"} /\ Len(text) > 0

\* C25: a text of n > 0 characters is printed slice by slice in order, every
\* slice of charLengthPerStep characters except the last, which is the
\* remainder; the renderer sleeps only between two slices of one text, never
\* after its last slice; when the text is printed there have been
\* ceil(n / charLengthPerStep) prints and one sleep fewer.
C25_SlicesAndDelays ==
    /\ [](/\ rPc \in {"loop", "sleep"}
               => /\ start = Min(charLengthPerStep * printCalls, Len(text))
                  /\ printCalls = CeilDiv(start, charLengthPerStep)
                  /\ Len(stdout) >= start
                  /\ SubSeq(stdout, Len(stdout) - start + 1, Len(stdout))
                        = SubSeq(text, 1, start)
          /\ rPc = "sleep"
               => /\ 0 < start
                  /\ start < Len(text)
                  /\ sleepCalls = printCalls - 1
          /\ (rPc = "loop" /\ start < Len(text)) => sleepCalls = printCalls
          /\ (rPc = "loop" /\ start = Len(text) /\ Len(text) > 0)
               => sleepCalls = printCalls - 1
          /\ TextRendered
               => /\ printCalls = CeilDiv(Len(text), charLengthPerStep)
                  /\ sleepCalls = printCalls - 1)
    /\ [][/\ printCalls' = printCalls + 1
               => /\ text' = text
                  /\ \E k \in 1..charLengthPerStep :
                        /\ stdout' = stdout \o SubSeq(text, start + 1, start + k)
                        /\ start' = start + k
                        /\ k = charLengthPerStep \/ start' = Len(text)
          /\ sleepCalls' = sleepCalls + 1
               => /\ UNCHANGED <<text, start, stdout, printCalls>>
                  /\ 0 < start
                  /\ start < Len(text)
                  /\ start % charLengthPerStep = 0]_vars

C25_Witness ==
    /\ TextRendered
    /\ Len(text) = 2 * charLengthPerStep + 1
    /\ printCalls = 3
    /\ sleepCalls = 2

(***************************************************************************)
(* Properties of the forwarding of the texts of the results.               *)
(***************************************************************************)
\* the places <<candidate, part>> of the texts of a result that are there and
\* not empty
PiecePlaces(result) ==
    IF result.isNil \/ result.candsNil THEN {}
    ELSE UNION { IF \/ result.Candidates[c].isNil
                    \/ result.Candidates[c].contentNil
                    \/ result.Candidates[c].partsNil
                 THEN {}
                 ELSE { <<c, p>> : p \in { q \in DOMAIN result.Candidates[c].Parts :
                                            /\ ~result.Candidates[c].Parts[q].isNil
                                            /\ result.Candidates[c].Parts[q].Text # <<>> } } :
                 c \in DOMAIN result.Candidates }

\* place a comes before place b: by candidate, then by part
PlaceBefore(a, b) == a[1] < b[1] \/ (a[1] = b[1] /\ a[2] < b[2])

\* the texts of a result as they are to be forwarded, in the order of their
\* places
PiecesOf(result) ==
    LET places == PiecePlaces(result)
    IN  [i \in 1..Cardinality(places) |->
            LET at == CHOOSE x \in places :
                         Cardinality({y \in places : PlaceBefore(y, x)}) = i - 1
                part == result.Candidates[at[1]].Parts[at[2]]
            IN  IF part.Thought
                THEN BlueString(UnescapeString(part.Text))
                ELSE UnescapeString(part.Text)]

\* the texts of the results among the events evs
RECURSIVE PiecesOfAll(_)
PiecesOfAll(evs) ==
    IF evs = <<>> THEN <<>>
    ELSE PiecesOfAll(SubSeq(evs, 1, Len(evs) - 1))
         \o (IF Last(evs).errNil THEN PiecesOf(Last(evs).result) ELSE <<>>)

\* the part of the current text that the renderer has still to print
TextLeft ==
    IF rPc \in {"loop", "sleep"} THEN SubSeq(text, start + 1, Len(text)) ELSE <<>>

\* how many texts of the result being forwarded are sent
SentOfCurrent == Len(PiecesOf(Last(delivered).result)) - Len(pending)

\* C26: while a result is forwarded, the texts still to send are the last of
\* its texts that are there and not empty, taken by candidate and then by
\* part, and the texts sent last are the first of them; every send puts the
\* next of them on outputChan; nil results, candidates, contents and parts
\* and empty texts send nothing; the metadata is updated from the result once
\* all its texts are sent and not before; when the process has exited, the
\* texts sent are those of all the results delivered, in the order of
\* delivery, each once; and what is sent is, in this order, what standard
\* output holds, what the renderer has still to print of its current text and
\* what outputChan holds.
C26_ForwardingOrder ==
    /\ [](/\ mainPc = "send"
               => LET current == PiecesOf(Last(delivered).result)
                  IN  /\ SentOfCurrent \in 0..Len(current)
                      /\ SentOfCurrent <= Len(sent)
                      /\ SubSeq(sent, Len(sent) - SentOfCurrent + 1, Len(sent))
                            = SubSeq(current, 1, SentOfCurrent)
                      /\ pending = SubSeq(current, SentOfCurrent + 1, Len(current))
          /\ mainPc = "exited" => sent = PiecesOfAll(delivered)
          /\ Len(outputChan) <= Len(sent)
          /\ SubSeq(sent, Len(sent) - Len(outputChan) + 1, Len(sent)) = outputChan
          /\ ~RendererDone => Concat(sent) = stdout \o TextLeft \o Concat(outputChan))
    /\ [][/\ sent' # sent
               => /\ mainPc = "send"
                  /\ mainPc' = "send"
                  /\ SentOfCurrent < Len(PiecesOf(Last(delivered).result))
                  /\ sent' = Append(sent, PiecesOf(Last(delivered).result)[SentOfCurrent + 1])
                  /\ Last(sent') # <<>>
                  /\ outputChan' = Append(outputChan, Last(sent'))
                  /\ metadata' = metadata
                  /\ delivered' = delivered
          /\ (mainPc = "send" /\ mainPc' # "send")
               => /\ SentOfCurrent = Len(PiecesOf(Last(delivered).result))
                  /\ sent' = sent
                  /\ delivered' = delivered
                  /\ metadata' = UpdateMetadata(metadata, Last(delivered).result)
          /\ delivered' # delivered => sent' = sent /\ metadata' = metadata]_vars

C26_Witness ==
    /\ rPc = "end"
    /\ Len(delivered) = 2
    /\ delivered[1].result.ModelVersion = "v2"
    /\ delivered[2].result.ModelVersion = "v1"
    /\ Len(sent) = 4
    /\ sent[1] = <<"a", "b", "c", "d", "e", "f", "g">>
    /\ sent[2] = <<"o", "k", "a", "y", "\n">>
    /\ metadata.ModelVersion = "v1"

(***************************************************************************)
(* Properties of the metadata report.                                      *)
(***************************************************************************)
\* the metadata reports printed
MetadataReports == {i \in DOMAIN stderr : stderr[i][1] = "metadata"}

\* C27: the metadata is printed at most once; the step that prints it finds
\* done received, the renderer ended, no error returned and none delivered,
\* and prints the metadata streamContent returned, with its call time; once
\* the process has exited the metadata has been printed exactly when the
\* stream delivered no error; the call time is set only by the step that
\* ends the stream without error, so that after an error it is zero and the
\* metadata is not printed.
C27_MetadataReport ==
    /\ [](/\ Cardinality(MetadataReports) <= 1
          /\ mainPc = "exited" => (MetadataReports # {} <=> ~HasErr)
          /\ MetadataReports # {} => /\ mainPc = "exited"
                                     /\ exitCode = 0
                                     /\ Last(stderr) = <<"metadata", metadata>>
          /\ HasErr => /\ metadata.APICallTime = 0
                       /\ MetadataReports = {}
          /\ (Returned /\ ~HasErr) => metadata.APICallTime # 0)
    /\ [][/\ Len(stderr') > Len(stderr) /\ Last(stderr')[1] = "metadata"
               => /\ doneCount = 1
                  /\ rPc = "end"
                  /\ closed
                  /\ err.isNil
                  /\ ~HasErr
                  /\ metadata.APICallTime # 0
                  /\ stderr' = Append(stderr, <<"metadata", metadata>>)
                  /\ metadata' = metadata
          /\ metadata'.APICallTime # metadata.APICallTime
               => /\ mainPc = "range"
                  /\ mainPc' = "close"
                  /\ ~HasErr
                  /\ delivered' = delivered
                  /\ err'.isNil]_vars

C27_Witness ==
    /\ mainPc = "exited"
    /\ exitCode = 0
    /\ doneCount = 1
    /\ Cardinality(MetadataReports) = 1
    /\ metadata.APICallTime # 0
    /\ Len(delivered) = 1
    /\ delivered[1].result.ModelVersion = "v1"

(***************************************************************************)
(* Properties of the newline the renderer ends with.                       *)
(***************************************************************************)
\* C28: when outputChan is closed and no text was sent on it, the renderer
\* writes one newline and nothing else, and signals done after it; whether
\* the renderer adds the newline depends on the last text alone: it adds none
\* exactly when the last text is not empty and ends with a newline, so that a
\* last text that is empty has a newline added also after a text that ended
\* with one.
C28_NewlineOnEmptyQueue ==
    /\ [](/\ (RendererDone /\ sent = <<>>) => stdout = <<"\n">>
          /\ (RendererDone /\ sent # <<>>)
               => stdout = IF Last(sent) # <<>> /\ Last(Last(sent)) = "\n"
                           THEN Concat(sent)
                           ELSE Concat(sent) \o <<"\n">>
          /\ ~RendererDone => IsPrefix(stdout, Concat(sent))
          /\ doneCount <= 1
          /\ doneCount = 1 => rPc = "end")
    /\ [][/\ (~RendererDone /\ RendererDone')
               => /\ closed
                  /\ outputChan = <<>>
                  /\ stdout = Concat(sent)
                  /\ doneCount' = 0
          /\ doneCount' # doneCount
               => /\ RendererDone
                  /\ stdout' = stdout
          /\ RendererDone => stdout' = stdout]_vars

C28_Witness ==
    /\ rPc = "end"
    /\ doneCount = 1
    /\ sent = <<<<"a", "\n">>, <<>>>>
    /\ stdout = <<"a", "\n", "\n">>

====
